---- MODULE Spec2Model ----
(***************************************************************************)
(* Model of the content enrichment pipeline of automara/cpv2:              *)
(* processMarkdownWithAI (src/services/aiPipeline.ts) and the eight agent  *)
(* functions it calls.  Strings whose characters matter are sequences of   *)
(* one-character strings; error messages are sequences of text fragments   *)
(* (template literals concatenate fragments with \o); costs are counted in *)
(* thousandths of a US dollar.                                             *)
(***************************************************************************)
EXTENDS Integers, Sequences, FiniteSets, TLC

(***************************************************************************)
(* Bounds of the model                                                     *)
(***************************************************************************)
\* longest document text enumerated (characters)
MaxContentLen == 1
\* how far outside [0,100] the validator's raw score is enumerated
MaxExcess == 1

(***************************************************************************)
(* JavaScript values                                                       *)
(***************************************************************************)
\* Strings are sequences of one-character strings; a property a parsed
\* JSON object lacks is absent from the record's domain.
\* Truthy(obj, f): `!obj.f` is false (f is present and not the empty string)
Truthy(obj, f) == f \in DOMAIN obj /\ obj[f] # <<>>

\* typed JSON values, for the fields the code inspects with typeof
JSNumber(n) == [type |-> "number", num |-> n, bool |-> FALSE]
JSBoolean(b) == [type |-> "boolean", num |-> 0, bool |-> b]
JSString == [type |-> "string", num |-> 0, bool |-> FALSE]
JSUndefined == [type |-> "undefined", num |-> 0, bool |-> FALSE]

Min(a, b) == IF a < b THEN a ELSE b
Max(a, b) == IF a > b THEN a ELSE b

\* a sequence of n copies of ch (a string of length n)
Repeat(ch, n) == [i \in 1..n |-> ch]

\* String.prototype.substring(0, n)
Substring0(s, n) == SubSeq(s, 1, Min(Len(s), n))

(***************************************************************************)
(* Thrown values                                                           *)
(***************************************************************************)
\* new Error(message)
Error(message) == [isError |-> TRUE, message |-> message]
\* a thrown value that is not an Error instance
NonError == [isError |-> FALSE, message |-> <<>>]

\* error instanceof Error ? error.message : "Unknown error"
ErrorMessage(e) == IF e.isError THEN e.message ELSE <<"Unknown error">>

\* message.includes(needle), at the granularity of message fragments
Includes(message, needle) == \E i \in 1..Len(message) : message[i] = needle

\* the SyntaxError JSON.parse throws on text that is not JSON
SyntaxError == Error(<<"Unexpected token in JSON">>)

\* what a remote agent call can reject with
RemoteFailures == {Error(<<"fetch failed">>), NonError}

\* what the embeddings provider can reject with
ProviderFailures ==
  { Error(<<"fetch failed">>),
    Error(<<"Incorrect ", "API key", " provided">>),
    Error(<<"You hit the ", "rate limit">>),
    Error(<<"insufficient ", "quota">>),
    NonError }

(***************************************************************************)
(* Outcome of an async function: a fulfilled or a rejected promise         *)
(***************************************************************************)
Fulfilled(v) == [ok |-> TRUE, value |-> v, error |-> NonError]
Rejected(e) == [ok |-> FALSE, value |-> <<>>, error |-> e]

\* the first part of every LLM agent: the remote call, the regular
\* expression match and JSON.parse.  The result is the parsed object or
\* the value thrown inside the try block.
ParseResponse(resp) ==
  CASE resp.kind = "throw" -> Rejected(resp.thrown)
    [] resp.kind = "nojson" -> Rejected(Error(<<"No valid JSON found in response">>))
    [] resp.kind = "badjson" -> Rejected(SyntaxError)
    [] OTHER -> Fulfilled(resp.obj)

\* the catch block of an agent: throw new Error(`${prefix}${message}`)
AgentCatch(prefix, e) == Rejected(Error(<<prefix>> \o ErrorMessage(e)))

\* responses that are not a usable JSON object, common to all LLM agents
BadResponses ==
  {[kind |-> "throw", thrown |-> e] : e \in RemoteFailures}
    \cup {[kind |-> "nojson"], [kind |-> "badjson"]}

JsonResponses(objs) == {[kind |-> "json", obj |-> o] : o \in objs}

\* no response (yet)
NoResponse == [kind |-> "none"]

(***************************************************************************)
(* Summary agent                                                           *)
(***************************************************************************)
SummaryObjects ==
  { [summary_short |-> <<"s">>, summary_medium |-> <<"m", "m">>,
     summary_long |-> <<"l", "l", "l">>],
    [summary_short |-> <<"s">>, summary_long |-> <<"l", "l", "l">>] }

generateSummaries(resp) ==
  LET p == ParseResponse(resp)
      prefix == "Failed to generate summaries: "
  IN IF ~p.ok THEN AgentCatch(prefix, p.error)
     ELSE IF ~Truthy(p.value, "summary_short")
             \/ ~Truthy(p.value, "summary_medium")
             \/ ~Truthy(p.value, "summary_long")
     THEN AgentCatch(prefix, Error(<<"Missing required summary fields">>))
     ELSE Fulfilled([summary_short |-> p.value.summary_short,
                     summary_medium |-> p.value.summary_medium,
                     summary_long |-> p.value.summary_long])

(***************************************************************************)
(* SEO agent                                                               *)
(***************************************************************************)
MetaTitleMax == 60
MetaDescriptionMax == 160

SEOObjects ==
  { [meta_title |-> Repeat("t", 5), meta_description |-> Repeat("d", 9),
     seo_keywords |-> <<"k">>],
    [meta_title |-> Repeat("t", MetaTitleMax + 1),
     meta_description |-> Repeat("d", MetaDescriptionMax + 1),
     seo_keywords |-> <<"k">>],
    [meta_title |-> Repeat("t", 5), meta_description |-> <<>>,
     seo_keywords |-> <<"k">>] }

\* a variant that throws on a field over its limit instead of cutting it
generateSEOMetadataRejecting(resp) ==
  LET p == ParseResponse(resp)
      prefix == "Failed to generate SEO metadata: "
  IN IF ~p.ok THEN AgentCatch(prefix, p.error)
     ELSE IF ~Truthy(p.value, "meta_title")
             \/ ~Truthy(p.value, "meta_description")
             \/ ~Truthy(p.value, "seo_keywords")
     THEN AgentCatch(prefix, Error(<<"Missing required SEO metadata fields">>))
     ELSE IF Len(p.value.meta_title) > MetaTitleMax
             \/ Len(p.value.meta_description) > MetaDescriptionMax
     THEN AgentCatch(prefix, Error(<<"Field exceeds character limit">>))
     ELSE Fulfilled(
       [meta_title |-> p.value.meta_title,
        meta_description |-> p.value.meta_description,
        seo_keywords |-> p.value.seo_keywords])

generateSEOMetadata(resp) ==
  LET p == ParseResponse(resp)
      prefix == "Failed to generate SEO metadata: "
  IN IF ~p.ok THEN AgentCatch(prefix, p.error)
     ELSE IF ~Truthy(p.value, "meta_title")
             \/ ~Truthy(p.value, "meta_description")
             \/ ~Truthy(p.value, "seo_keywords")
     THEN AgentCatch(prefix, Error(<<"Missing required SEO metadata fields">>))
     ELSE Fulfilled(
       [meta_title |->
          IF Len(p.value.meta_title) > MetaTitleMax
          THEN Substring0(p.value.meta_title, MetaTitleMax)
          ELSE p.value.meta_title,
        meta_description |->
          IF Len(p.value.meta_description) > MetaDescriptionMax
          THEN Substring0(p.value.meta_description, MetaDescriptionMax)
          ELSE p.value.meta_description,
        seo_keywords |-> p.value.seo_keywords])

(***************************************************************************)
(* Category agent.  Confidence is counted in 1/10000 (0.95 is 9500).       *)
(***************************************************************************)
ConfidenceOne == 10000

CategoryObjects ==
  { [category |-> <<"T">>, confidence |-> JSNumber(9500),
     reasoning |-> <<"r">>],
    [category |-> <<"T">>, confidence |-> JSNumber(95 * ConfidenceOne)],
    [category |-> <<"T">>, confidence |-> JSString],
    [confidence |-> JSNumber(9500)] }

\* a variant that takes a confidence of 1 for a percentage too
categorizeContentFromOne(resp) ==
  LET p == ParseResponse(resp)
      prefix == "Failed to categorize content: "
  IN IF ~p.ok THEN AgentCatch(prefix, p.error)
     ELSE IF ~Truthy(p.value, "category")
             \/ p.value.confidence.type # "number"
     THEN AgentCatch(prefix, Error(<<"Missing required category fields">>))
     ELSE LET confidence ==
                IF p.value.confidence.num >= ConfidenceOne
                THEN p.value.confidence.num \div 100
                ELSE p.value.confidence.num
          IN Fulfilled(
               [category |-> p.value.category,
                confidence |-> Min(Max(confidence, 0), ConfidenceOne),
                reasoning |->
                  IF Truthy(p.value, "reasoning") THEN p.value.reasoning
                  ELSE <<"No reasoning provided">>])

categorizeContent(resp) ==
  LET p == ParseResponse(resp)
      prefix == "Failed to categorize content: "
  IN IF ~p.ok THEN AgentCatch(prefix, p.error)
     ELSE IF ~Truthy(p.value, "category")
             \/ p.value.confidence.type # "number"
     THEN AgentCatch(prefix, Error(<<"Missing required category fields">>))
     ELSE LET confidence ==
                IF p.value.confidence.num > ConfidenceOne
                THEN p.value.confidence.num \div 100
                ELSE p.value.confidence.num
          IN Fulfilled(
               [category |-> p.value.category,
                confidence |-> Min(Max(confidence, 0), ConfidenceOne),
                reasoning |->
                  IF Truthy(p.value, "reasoning") THEN p.value.reasoning
                  ELSE <<"No reasoning provided">>])

(***************************************************************************)
(* Tags agent                                                              *)
(***************************************************************************)
LowerCaseLetters ==
  {"a", "b", "c", "d", "e", "f", "g", "h", "i", "j", "k", "l", "m",
   "n", "o", "p", "q", "r", "s", "t", "u", "v", "w", "x", "y", "z"}
Digits == {"0", "1", "2", "3", "4", "5", "6", "7", "8", "9"}
WhiteSpace == {" ", "\t", "\n"}

\* the upper-case letters that occur in the enumerated inputs
ToLowerCaseChar(ch) ==
  CASE ch = "A" -> "a" [] ch = "B" -> "b" [] ch = "W" -> "w" [] OTHER -> ch

\* String.prototype.toLowerCase
ToLowerCase(s) == [i \in 1..Len(s) |-> ToLowerCaseChar(s[i])]

RECURSIVE TrimStart(_)
TrimStart(s) ==
  IF s # <<>> /\ Head(s) \in WhiteSpace THEN TrimStart(Tail(s)) ELSE s

RECURSIVE TrimEnd(_)
TrimEnd(s) ==
  IF s # <<>> /\ s[Len(s)] \in WhiteSpace
  THEN TrimEnd(SubSeq(s, 1, Len(s) - 1)) ELSE s

\* String.prototype.trim
Trim(s) == TrimEnd(TrimStart(s))

\* a variant whose character class also admits the underscore
TagPatternLoose(tag) ==
  /\ Len(tag) > 0
  /\ \A i \in 1..Len(tag) :
       tag[i] \in LowerCaseLetters \cup Digits \cup {"-", "_"}

\* /^[a-z0-9-]+$/.test(tag)
TagPattern(tag) ==
  /\ Len(tag) > 0
  /\ \A i \in 1..Len(tag) : tag[i] \in LowerCaseLetters \cup Digits \cup {"-"}

\* Array.prototype.slice(0, n)
Slice0(s, n) == SubSeq(s, 1, Min(Len(s), n))

MinTags == 3
MaxTags == 5

TagAI == <<"a", "i">>
TagWeb == <<"w", "e", "b", "-", "d", "e", "v">>
TagUpper == <<" ", "W", "e", "b", " ">>
TagBad == <<"a", "_", "b">>
TagN(d) == <<"t", d>>

TagsObjects ==
  { [tags |-> [isArray |-> TRUE, items |-> <<TagAI, TagWeb, TagN("1")>>]],
    [tags |-> [isArray |-> TRUE,
               items |-> <<TagAI, TagUpper, TagN("1"), TagN("2"), TagN("3"),
                           TagN("4")>>]],
    [tags |-> [isArray |-> TRUE, items |-> <<TagAI, TagBad, TagN("1")>>]],
    [tags |-> [isArray |-> TRUE, items |-> <<TagAI, TagWeb>>]],
    [tags |-> [isArray |-> FALSE, items |-> <<>>]] }

\* a variant that does not count the tags again after normalization
generateTagsNoRecheck(resp) ==
  LET p == ParseResponse(resp)
      prefix == "Failed to generate tags: "
      ValidTag(tag) == Len(tag) > 0 /\ TagPattern(tag)
  IN IF ~p.ok THEN AgentCatch(prefix, p.error)
     ELSE IF ~p.value.tags.isArray
     THEN AgentCatch(prefix, Error(<<"Tags must be an array">>))
     ELSE IF Len(p.value.tags.items) < MinTags
     THEN AgentCatch(prefix, Error(<<"Must have at least 3 tags">>))
     ELSE LET tags == IF Len(p.value.tags.items) > MaxTags
                      THEN Slice0(p.value.tags.items, MaxTags)
                      ELSE p.value.tags.items
              lowered == [i \in 1..Len(tags) |-> Trim(ToLowerCase(tags[i]))]
              normalizedTags == SelectSeq(lowered, ValidTag)
          IN Fulfilled(Slice0(normalizedTags, MaxTags))

\* a variant that normalizes the whole list and cuts it afterwards
generateTagsCutLast(resp) ==
  LET p == ParseResponse(resp)
      prefix == "Failed to generate tags: "
      ValidTag(tag) == Len(tag) > 0 /\ TagPattern(tag)
  IN IF ~p.ok THEN AgentCatch(prefix, p.error)
     ELSE IF ~p.value.tags.isArray
     THEN AgentCatch(prefix, Error(<<"Tags must be an array">>))
     ELSE IF Len(p.value.tags.items) < MinTags
     THEN AgentCatch(prefix, Error(<<"Must have at least 3 tags">>))
     ELSE LET tags == p.value.tags.items
              lowered == [i \in 1..Len(tags) |-> Trim(ToLowerCase(tags[i]))]
              normalizedTags == SelectSeq(lowered, ValidTag)
          IN IF Len(normalizedTags) < MinTags
             THEN AgentCatch(prefix,
                    Error(<<"Not enough valid tags after normalization">>))
             ELSE Fulfilled(Slice0(normalizedTags, MaxTags))

generateTags(resp) ==
  LET p == ParseResponse(resp)
      prefix == "Failed to generate tags: "
      ValidTag(tag) == Len(tag) > 0 /\ TagPattern(tag)
  IN IF ~p.ok THEN AgentCatch(prefix, p.error)
     ELSE IF ~p.value.tags.isArray
     THEN AgentCatch(prefix, Error(<<"Tags must be an array">>))
     ELSE IF Len(p.value.tags.items) < MinTags
     THEN AgentCatch(prefix, Error(<<"Must have at least 3 tags">>))
     ELSE LET tags == IF Len(p.value.tags.items) > MaxTags
                      THEN Slice0(p.value.tags.items, MaxTags)
                      ELSE p.value.tags.items
              lowered == [i \in 1..Len(tags) |-> Trim(ToLowerCase(tags[i]))]
              normalizedTags == SelectSeq(lowered, ValidTag)
          IN IF Len(normalizedTags) < MinTags
             THEN AgentCatch(prefix,
                    Error(<<"Not enough valid tags after normalization">>))
             ELSE Fulfilled(Slice0(normalizedTags, MaxTags))

(***************************************************************************)
(* Schema.org agent                                                        *)
(***************************************************************************)
SchemaOrg == <<"https://schema.org">>
Today == <<"2025-11-16">>

SchemaObjects ==
  { [context |-> SchemaOrg, type |-> <<"TechArticle">>,
     datePublished |-> <<"2025-01-15">>],
    [context |-> <<"http://schema.org/">>, type |-> <<"TechArticle">>],
    [context |-> SchemaOrg] }

\* the fields "@context" and "@type" are named context and type
generateSchemaOrgData(resp) ==
  LET p == ParseResponse(resp)
      prefix == "Failed to generate Schema.org data: "
  IN IF ~p.ok THEN AgentCatch(prefix, p.error)
     ELSE IF ~Truthy(p.value, "context") \/ ~Truthy(p.value, "type")
     THEN AgentCatch(prefix,
            Error(<<"Missing required Schema.org fields (@context, @type)">>))
     ELSE Fulfilled(
            [context |-> SchemaOrg,
             type |-> p.value.type,
             datePublished |->
               IF Truthy(p.value, "datePublished") THEN p.value.datePublished
               ELSE Today])

(***************************************************************************)
(* Image prompt agent                                                      *)
(***************************************************************************)
ImagePromptMax == 200

ImagePromptObjects ==
  { [image_prompt |-> Repeat("p", 7), style_notes |-> <<"n">>],
    [image_prompt |-> Repeat("p", ImagePromptMax + 1)],
    [style_notes |-> <<"n">>] }

generateImagePrompt(resp) ==
  LET p == ParseResponse(resp)
      prefix == "Failed to generate image prompt: "
  IN IF ~p.ok THEN AgentCatch(prefix, p.error)
     ELSE IF ~Truthy(p.value, "image_prompt")
     THEN AgentCatch(prefix, Error(<<"Missing required image_prompt field">>))
     ELSE Fulfilled(
            [image_prompt |->
               IF Len(p.value.image_prompt) > ImagePromptMax
               THEN Substring0(p.value.image_prompt, ImagePromptMax)
               ELSE p.value.image_prompt,
             style_notes |->
               IF Truthy(p.value, "style_notes") THEN p.value.style_notes
               ELSE <<"No style notes provided">>])

(***************************************************************************)
(* Embeddings agent                                                        *)
(***************************************************************************)
EmbeddingDimensions == 3072
CleanedContentMax == 30000

\* String.prototype.replace(/\s+/g, " ")
RECURSIVE CollapseWhiteSpace(_)
CollapseWhiteSpace(s) ==
  IF s = <<>> THEN <<>>
  ELSE IF Head(s) \in WhiteSpace
  THEN <<" ">> \o CollapseWhiteSpace(TrimStart(Tail(s)))
  ELSE <<Head(s)>> \o CollapseWhiteSpace(Tail(s))

cleanedContent(markdown) ==
  Substring0(Trim(CollapseWhiteSpace(markdown)), CleanedContentMax)

\* the vector of a provider response: absent, not an array, or an array
\* of `length` components that are all numbers or among which there is a
\* NaN, a string or a null
ComponentKinds == {"number", "NaN", "string", "null"}
NoEmbedding ==
  [present |-> FALSE, isArray |-> FALSE, length |-> 0, components |-> "number"]
NotAnArray ==
  [present |-> TRUE, isArray |-> FALSE, length |-> 0, components |-> "number"]
VectorOf(n, kind) ==
  [present |-> TRUE, isArray |-> TRUE, length |-> n,
   components |-> IF n = 0 THEN "number" ELSE kind]
Vector(n) == VectorOf(n, "number")

EmbeddingResponses ==
  {[kind |-> "throw", thrown |-> e] : e \in ProviderFailures}
    \cup {[kind |-> "data", embedding |-> v] :
            v \in {Vector(EmbeddingDimensions), Vector(1536), NoEmbedding,
                   NotAnArray}}

\* the catch block of generateEmbeddings
EmbeddingsCatch(e) ==
  IF e.isError /\ Includes(e.message, "API key")
  THEN Rejected(Error(<<"OpenAI API key is invalid or missing. Please check your OPENAI_API_KEY environment variable.">>))
  ELSE IF e.isError /\ Includes(e.message, "rate limit")
  THEN Rejected(Error(<<"OpenAI API rate limit exceeded. Please try again later.">>))
  ELSE IF e.isError /\ Includes(e.message, "quota")
  THEN Rejected(Error(<<"OpenAI API quota exceeded. Please check your billing settings.">>))
  ELSE Rejected(Error(<<"Failed to generate embeddings: ">> \o ErrorMessage(e)))

\* getOpenAIClient(): throws when OPENAI_API_KEY is not set
getOpenAIClient(apiKey) ==
  IF ~apiKey
  THEN Rejected(Error(<<"OPENAI_API_KEY environment variable is required for embeddings generation">>))
  ELSE Fulfilled(<<"client">>)

\* generateEmbeddings up to the provider call: the value thrown before the
\* call, or the text that is sent
EmbeddingsInput(markdown, apiKey) ==
  IF ~getOpenAIClient(apiKey).ok THEN getOpenAIClient(apiKey)
  ELSE IF cleanedContent(markdown) = <<>>
  THEN Rejected(Error(<<"Content is empty after cleaning">>))
  ELSE Fulfilled(cleanedContent(markdown))

\* generateEmbeddings from the provider's response on
generateEmbeddings(markdown, apiKey, resp) ==
  IF ~EmbeddingsInput(markdown, apiKey).ok
  THEN EmbeddingsCatch(EmbeddingsInput(markdown, apiKey).error)
  ELSE IF resp.kind = "throw" THEN EmbeddingsCatch(resp.thrown)
  ELSE IF ~resp.embedding.present \/ ~resp.embedding.isArray
  THEN EmbeddingsCatch(Error(<<"Invalid embedding response from OpenAI">>))
  ELSE IF resp.embedding.length # EmbeddingDimensions
  THEN EmbeddingsCatch(
         Error(<<"Unexpected embedding dimensions: ",
                 ToString(resp.embedding.length), " (expected 3072)">>))
  ELSE Fulfilled(resp.embedding)

(***************************************************************************)
(* Validator agent                                                         *)
(***************************************************************************)
PassThreshold == 70
ScoreMin == 0
ScoreMax == 100

\* the scores the underlying judgment can propose
RawScores ==
  ((ScoreMin - MaxExcess)..ScoreMin)
    \cup {PassThreshold - 1, PassThreshold, PassThreshold + 1}
    \cup (ScoreMax..(ScoreMax + MaxExcess))

Report == [overall_feedback |-> <<"f">>]

ValidatorObjects ==
  {[quality_score |-> JSNumber(n), passed |-> JSBoolean(b),
    validation_report |-> Report] : n \in RawScores, b \in BOOLEAN}
    \cup { [quality_score |-> JSString, passed |-> JSBoolean(TRUE),
            validation_report |-> Report],
           [quality_score |-> JSNumber(85), passed |-> JSUndefined,
            validation_report |-> Report],
           [quality_score |-> JSNumber(85), passed |-> JSBoolean(TRUE)] }

\* a variant that only caps the score from above
ClampScoreUpperOnly(score) == Min(score, ScoreMax)

\* Math.min(Math.max(score, 0), 100)
ClampScore(score) == Min(Max(score, ScoreMin), ScoreMax)

\* a variant with a strict threshold
PassedStrict(score) == score > PassThreshold

\* result.passed = result.quality_score >= 70
Passed(score) == score >= PassThreshold

\* a variant that keeps the passed flag of the response
validateMetadataTrusting(resp) ==
  LET p == ParseResponse(resp)
      prefix == "Failed to validate metadata: "
  IN IF ~p.ok THEN AgentCatch(prefix, p.error)
     ELSE IF p.value.quality_score.type # "number"
             \/ p.value.passed.type # "boolean"
             \/ "validation_report" \notin DOMAIN p.value
     THEN AgentCatch(prefix, Error(<<"Invalid validation response structure">>))
     ELSE Fulfilled(
            [quality_score |-> ClampScore(p.value.quality_score.num),
             passed |-> p.value.passed.bool,
             validation_report |-> p.value.validation_report])

validateMetadata(resp) ==
  LET p == ParseResponse(resp)
      prefix == "Failed to validate metadata: "
  IN IF ~p.ok THEN AgentCatch(prefix, p.error)
     ELSE IF p.value.quality_score.type # "number"
             \/ p.value.passed.type # "boolean"
             \/ "validation_report" \notin DOMAIN p.value
     THEN AgentCatch(prefix, Error(<<"Invalid validation response structure">>))
     ELSE Fulfilled(
            [quality_score |-> ClampScore(p.value.quality_score.num),
             passed |-> Passed(ClampScore(p.value.quality_score.num)),
             validation_report |-> p.value.validation_report])

(***************************************************************************)
(* The pipeline: processMarkdownWithAI                                     *)
(***************************************************************************)
\* COST_ESTIMATES, in thousandths of a dollar
COST_ESTIMATES ==
  [summary |-> 1, seo |-> 2, category |-> 3, tags |-> 3, schema |-> 20,
   imagePrompt |-> 10, embeddings |-> 13, validator |-> 20]

Capabilities == DOMAIN COST_ESTIMATES

\* the argument lists of the two Promise.all calls and the validator call
Phase1 == <<"summary", "seo", "category", "tags">>
Phase2 == <<"schema", "imagePrompt", "embeddings">>
Phase3 == <<"validator">>

Range(s) == {s[i] : i \in 1..Len(s)}

ContentChars == {" ", "a"}
Contents == UNION {[1..n -> ContentChars] : n \in 0..MaxContentLen}

VARIABLES
  markdownContent, \* the argument of processMarkdownWithAI
  openaiApiKey,    \* whether process.env.OPENAI_API_KEY is set
  state,           \* where the body of processMarkdownWithAI stands
  path,            \* the states entered so far, in order
  status,          \* per capability: the state of the promise of its call
  value,           \* per capability: the value its promise fulfilled with
  capError,        \* per capability: the Error its promise rejected with
  response,        \* per capability: what its remote call answered
  invoked,         \* per capability: how often its function was called
  calls,           \* per capability: how often its remote call was made
  started,         \* the capabilities in the order their functions were called
  rejectedBy,      \* the capability whose rejection rejected the awaited
                   \* Promise.all ("none" while it has not rejected)
  totalCost,       \* the local totalCost
  clock,           \* Date.now()
  startTime,       \* the local startTime
  validation,      \* the local validation (<<>> before Phase 3 is over)
  result,          \* what the call returned (<<>> when nothing was returned)
  thrown,          \* what the call threw (NonError when nothing was thrown)
  cmState,         \* where the body of createModule stands ("none": the
                   \* pipeline was not called by createModule)
  modules,         \* the rows of table modules
  module_embeddings, \* the rows of table module_embeddings
  module_versions, \* the rows of table module_versions
  cmReturned,      \* what createModule returned (<<>> when nothing)
  cmThrown,        \* what createModule threw (NonError when nothing)
  contentCount,    \* the argument of estimateProcessingCost
  estimate,        \* what estimateProcessingCost returned (<<>> when nothing)
  search,          \* a call of semanticSearch: where it stands, its input,
                   \* the parameters of its rpc and what it returned or threw
  cosine,          \* a call of cosineSimilarity: its arguments and outcome
  versioning,      \* the calls of createModuleVersion on one module, the
                   \* module's latest_version and its rows of module_versions
  webflow          \* the syncs of one module: the request in progress, the
                   \* module's webflow_id and the items of the collection

vars ==
  <<markdownContent, openaiApiKey, state, path, status, value, capError,
    response, invoked, calls, started, rejectedBy, totalCost, clock, startTime,
    validation, result, thrown, cmState, modules, module_embeddings,
    module_versions, cmReturned, cmThrown, contentCount, estimate, search,
    cosine, versioning, webflow>>

\* the state of the other services of the module layer
serviceVars == <<search, cosine, versioning, webflow>>

\* the state of processMarkdownWithAI's callers, which the pipeline and the
\* agents do not touch
callerVars ==
  <<cmState, modules, module_embeddings, module_versions, cmReturned,
    cmThrown, contentCount, estimate, search, cosine, versioning, webflow>>

Running == {"Phase1Running", "Phase2Running", "Phase3Running"}
Terminal == {"Completed", "Failed"}

\* a variant that does not await the promise of generateEmbeddings
AwaitedWithoutEmbeddings(s) ==
  CASE s = "Phase1Running" -> Range(Phase1)
    [] s = "Phase2Running" -> Range(Phase2) \ {"embeddings"}
    [] s = "Phase3Running" -> Range(Phase3)
    [] OTHER -> {}

\* the promises the body is awaiting in a state
Awaited(s) ==
  CASE s = "Phase1Running" -> Range(Phase1)
    [] s = "Phase2Running" -> Range(Phase2)
    [] s = "Phase3Running" -> Range(Phase3)
    [] OTHER -> {}

\* a variant that goes on at the first fulfilment (Promise.any)
AnyFulfilled(caps) == \E c \in caps : status[c] = "fulfilled"

\* a variant that goes on once every promise has settled (Promise.allSettled)
AllSettled(caps) == \A c \in caps : status[c] \in {"fulfilled", "rejected"}

\* Promise.all fulfils when every promise of its argument has fulfilled
AllFulfilled(caps) == \A c \in caps : status[c] = "fulfilled"

\* a variant that rejects once every promise has settled
AnyRejectedOnceSettled(caps) ==
  /\ \E c \in caps : status[c] = "rejected"
  /\ \A c \in caps : status[c] \in {"fulfilled", "rejected"}

\* Promise.all rejects as soon as one promise of its argument rejects
AnyRejected(caps) == \E c \in caps : status[c] = "rejected"

\* Promise.all keeps the reason of the first promise to reject: the
\* rejection of c is the one it rejects with when c is awaited and no
\* awaited promise rejected before
FirstRejection(c, ok) ==
  IF ~ok /\ c \in Awaited(state) /\ rejectedBy = "none" THEN c
  ELSE rejectedBy

\* a continuation of the body is queued: it runs before any other response
\* is handled
ContinuationReady ==
  state \in Running /\ (AllFulfilled(Awaited(state)) \/ AnyRejected(Awaited(state)))

Responses(c) ==
  CASE c = "summary" -> BadResponses \cup JsonResponses(SummaryObjects)
    [] c = "seo" -> BadResponses \cup JsonResponses(SEOObjects)
    [] c = "category" -> BadResponses \cup JsonResponses(CategoryObjects)
    [] c = "tags" -> BadResponses \cup JsonResponses(TagsObjects)
    [] c = "schema" -> BadResponses \cup JsonResponses(SchemaObjects)
    [] c = "imagePrompt" -> BadResponses \cup JsonResponses(ImagePromptObjects)
    [] c = "embeddings" -> EmbeddingResponses
    [] c = "validator" -> BadResponses \cup JsonResponses(ValidatorObjects)

\* the agent function of capability c, applied to the response of its call
Agent(c, resp) ==
  CASE c = "summary" -> generateSummaries(resp)
    [] c = "seo" -> generateSEOMetadata(resp)
    [] c = "category" -> categorizeContent(resp)
    [] c = "tags" -> generateTags(resp)
    [] c = "schema" -> generateSchemaOrgData(resp)
    [] c = "imagePrompt" -> generateImagePrompt(resp)
    [] c = "embeddings" -> generateEmbeddings(markdownContent, openaiApiKey, resp)
    [] c = "validator" -> validateMetadata(resp)

\* a variant that does not read the message of the caught error
PipelineErrorGeneric(e) == Error(<<"AI Pipeline failed: ", "Unknown error">>)

\* throw new Error(`AI Pipeline failed: ${...}`)
PipelineError(e) == Error(<<"AI Pipeline failed: ">> \o ErrorMessage(e))

\* nothing has been called yet
PipelineInit ==
  /\ markdownContent \in Contents
  /\ openaiApiKey \in BOOLEAN
  /\ state = "Idle"
  /\ path = <<"Idle">>
  /\ status = [c \in Capabilities |-> "idle"]
  /\ value = [c \in Capabilities |-> <<>>]
  /\ capError = [c \in Capabilities |-> NonError]
  /\ response = [c \in Capabilities |-> NoResponse]
  /\ invoked = [c \in Capabilities |-> 0]
  /\ calls = [c \in Capabilities |-> 0]
  /\ started = <<>>
  /\ rejectedBy = "none"
  /\ totalCost = 0
  /\ clock = 0
  /\ startTime = 0
  /\ validation = <<>>
  /\ result = <<>>
  /\ thrown = NonError

\* no caller is running: the tables are empty, nothing was estimated
\* no other service has been called
ServiceInit ==
  /\ search = [state |-> "none"]
  /\ cosine = [state |-> "none"]
  /\ versioning = [state |-> "none"]
  /\ webflow = [state |-> "none"]

CallerInit ==
  /\ cmState = "none"
  /\ modules = {}
  /\ module_embeddings = {}
  /\ module_versions = {}
  /\ cmReturned = <<>>
  /\ cmThrown = NonError
  /\ contentCount = 0
  /\ estimate = <<>>
  /\ ServiceInit

\* processMarkdownWithAI is about to be called directly
Init == PipelineInit /\ CallerInit

\* the calls of the agent functions of one phase, in argument order; each
\* runs up to its remote call.  generateEmbeddings can throw before it.
CallPhase(phase) ==
  LET early == "embeddings" \in Range(phase)
                 /\ ~EmbeddingsInput(markdownContent, openaiApiKey).ok
  IN /\ status' = [c \in Capabilities |->
                     IF c \notin Range(phase) THEN status[c]
                     ELSE IF c = "embeddings" /\ early THEN "rejected"
                     ELSE "pending"]
     /\ capError' = [c \in Capabilities |->
                       IF c = "embeddings" /\ early
                       THEN generateEmbeddings(markdownContent, openaiApiKey,
                                               NoResponse).error
                       ELSE capError[c]]
     /\ invoked' = [c \in Capabilities |->
                      IF c \in Range(phase) THEN invoked[c] + 1 ELSE invoked[c]]
     /\ calls' = [c \in Capabilities |->
                    IF c \in Range(phase) /\ ~(c = "embeddings" /\ early)
                    THEN calls[c] + 1 ELSE calls[c]]
     /\ started' = started \o phase
     /\ rejectedBy' = IF early THEN "embeddings" ELSE "none"

\* processMarkdownWithAI is called: lines 78-95, up to the first await
Begin ==
  /\ state = "Idle"
  /\ state' = "Phase1Running"
  /\ path' = Append(path, "Phase1Running")
  /\ startTime' = clock
  /\ totalCost' = 0
  /\ CallPhase(Phase1)
  /\ UNCHANGED <<markdownContent, openaiApiKey, value, response, clock,
                 validation, result, thrown>>
  /\ UNCHANGED callerVars

\* a variant in which a rejection that arrives after the run has failed
\* replaces the error the run failed with
RespondOverwriting(c, resp) ==
  /\ status[c] = "pending"
  /\ ~ContinuationReady
  /\ clock' = clock + 1
  /\ status' = [status EXCEPT ![c] = IF Agent(c, resp).ok THEN "fulfilled"
                                    ELSE "rejected"]
  /\ value' = [value EXCEPT ![c] = Agent(c, resp).value]
  /\ capError' = [capError EXCEPT ![c] = Agent(c, resp).error]
  /\ response' = [response EXCEPT ![c] = resp]
  /\ rejectedBy' = FirstRejection(c, Agent(c, resp).ok)
  /\ thrown' = IF state = "Failed" /\ ~Agent(c, resp).ok
               THEN PipelineError(Agent(c, resp).error) ELSE thrown
  /\ UNCHANGED <<markdownContent, openaiApiKey, state, path, invoked, calls,
                 started, totalCost, startTime, validation, result>>
  /\ UNCHANGED callerVars

\* the remote call of capability c answers and the rest of its agent
\* function runs; its promise settles
Respond(c, resp) ==
  /\ status[c] = "pending"
  /\ ~ContinuationReady
  /\ clock' = clock + 1
  /\ status' = [status EXCEPT ![c] = IF Agent(c, resp).ok THEN "fulfilled"
                                    ELSE "rejected"]
  /\ value' = [value EXCEPT ![c] = Agent(c, resp).value]
  /\ capError' = [capError EXCEPT ![c] = Agent(c, resp).error]
  /\ response' = [response EXCEPT ![c] = resp]
  /\ rejectedBy' = FirstRejection(c, Agent(c, resp).ok)
  /\ UNCHANGED <<markdownContent, openaiApiKey, state, path, invoked, calls,
                 started, totalCost, startTime, validation, result, thrown>>
  /\ UNCHANGED callerVars

\* a variant that goes from Phase 1 straight to the validator
Phase1ResolvedSkipping ==
  /\ state = "Phase1Running"
  /\ AllFulfilled(Awaited(state))
  /\ totalCost' = totalCost + COST_ESTIMATES.summary + COST_ESTIMATES.seo
                    + COST_ESTIMATES.category + COST_ESTIMATES.tags
  /\ state' = "Phase3Running"
  /\ path' = Append(path, "Phase3Running")
  /\ CallPhase(Phase3)
  /\ UNCHANGED <<markdownContent, openaiApiKey, value, response, clock,
                 startTime, validation, result, thrown>>
  /\ UNCHANGED callerVars

\* lines 97-120: the first Promise.all fulfilled
Phase1Resolved ==
  /\ state = "Phase1Running"
  /\ AllFulfilled(Awaited(state))
  /\ totalCost' = totalCost + COST_ESTIMATES.summary + COST_ESTIMATES.seo
                    + COST_ESTIMATES.category + COST_ESTIMATES.tags
  /\ state' = "Phase2Running"
  /\ path' = Append(path, "Phase2Running")
  /\ CallPhase(Phase2)
  /\ UNCHANGED <<markdownContent, openaiApiKey, value, response, clock,
                 startTime, validation, result, thrown>>
  /\ UNCHANGED callerVars

\* a variant that does not add the cost of the embeddings
Phase2ResolvedEmbeddingsFree ==
  /\ state = "Phase2Running"
  /\ AllFulfilled(Awaited(state))
  /\ totalCost' = totalCost + COST_ESTIMATES.schema
                    + COST_ESTIMATES.imagePrompt
  /\ state' = "Phase3Running"
  /\ path' = Append(path, "Phase3Running")
  /\ CallPhase(Phase3)
  /\ UNCHANGED <<markdownContent, openaiApiKey, value, response, clock,
                 startTime, validation, result, thrown>>
  /\ UNCHANGED callerVars

\* lines 122-146: the second Promise.all fulfilled
Phase2Resolved ==
  /\ state = "Phase2Running"
  /\ AllFulfilled(Awaited(state))
  /\ totalCost' = totalCost + COST_ESTIMATES.schema
                    + COST_ESTIMATES.imagePrompt + COST_ESTIMATES.embeddings
  /\ state' = "Phase3Running"
  /\ path' = Append(path, "Phase3Running")
  /\ CallPhase(Phase3)
  /\ UNCHANGED <<markdownContent, openaiApiKey, value, response, clock,
                 startTime, validation, result, thrown>>
  /\ UNCHANGED callerVars

\* a variant that leaves the embedding out of the result
BuildResultWithoutEmbedding(cost, time) ==
  [summary_short |-> value["summary"].summary_short,
   summary_medium |-> value["summary"].summary_medium,
   summary_long |-> value["summary"].summary_long,
   meta_title |-> value["seo"].meta_title,
   meta_description |-> value["seo"].meta_description,
   seo_keywords |-> value["seo"].seo_keywords,
   category |-> value["category"].category,
   category_confidence |-> value["category"].confidence,
   tags |-> value["tags"],
   schema_json |-> value["schema"],
   image_prompt |-> value["imagePrompt"].image_prompt,
   quality_score |-> value["validator"].quality_score,
   validation_report |-> value["validator"].validation_report,
   processing_time_ms |-> time,
   estimated_cost_usd |-> cost]

\* lines 161-195: the object literal assigned to result
BuildResult(cost, time) ==
  [summary_short |-> value["summary"].summary_short,
   summary_medium |-> value["summary"].summary_medium,
   summary_long |-> value["summary"].summary_long,
   meta_title |-> value["seo"].meta_title,
   meta_description |-> value["seo"].meta_description,
   seo_keywords |-> value["seo"].seo_keywords,
   category |-> value["category"].category,
   category_confidence |-> value["category"].confidence,
   tags |-> value["tags"],
   schema_json |-> value["schema"],
   image_prompt |-> value["imagePrompt"].image_prompt,
   embedding |-> value["embeddings"],
   quality_score |-> value["validator"].quality_score,
   validation_report |-> value["validator"].validation_report,
   processing_time_ms |-> time,
   estimated_cost_usd |-> cost]

\* a variant that throws when the validation did not pass
Phase3ResolvedGated ==
  /\ state = "Phase3Running"
  /\ AllFulfilled(Awaited(state))
  /\ validation' = value["validator"]
  /\ totalCost' = totalCost + COST_ESTIMATES.validator
  /\ IF value["validator"].passed
     THEN /\ result' = BuildResult(totalCost + COST_ESTIMATES.validator,
                                   clock - startTime)
          /\ state' = "Completed"
          /\ path' = Append(path, "Completed")
          /\ thrown' = thrown
     ELSE /\ result' = result
          /\ state' = "Failed"
          /\ path' = Append(path, "Failed")
          /\ thrown' = PipelineError(Error(<<"Quality score below threshold">>))
  /\ UNCHANGED <<markdownContent, openaiApiKey, status, value, capError,
                 response, invoked, calls, started, rejectedBy, clock, startTime>>
  /\ UNCHANGED callerVars

\* lines 148-213: validateMetadata fulfilled; the result is returned
Phase3Resolved ==
  /\ state = "Phase3Running"
  /\ AllFulfilled(Awaited(state))
  /\ validation' = value["validator"]
  /\ totalCost' = totalCost + COST_ESTIMATES.validator
  /\ result' = BuildResult(totalCost + COST_ESTIMATES.validator,
                           clock - startTime)
  /\ state' = "Completed"
  /\ path' = Append(path, "Completed")
  /\ UNCHANGED <<markdownContent, openaiApiKey, status, value, capError,
                 response, invoked, calls, started, rejectedBy, clock, startTime, thrown>>
  /\ UNCHANGED callerVars

\* the argument list of the call the body is awaiting in a state
AwaitedCall(s) ==
  CASE s = "Phase1Running" -> Phase1
    [] s = "Phase2Running" -> Phase2
    [] OTHER -> Phase3

\* a variant that calls the capabilities of the failed phase a second time
\* before it gives up
CatchRetryOnce ==
  /\ state \in Running
  /\ AnyRejected(Awaited(state))
  /\ UNCHANGED callerVars
  /\ IF \A c \in Awaited(state) : invoked[c] < 2
     THEN /\ CallPhase(AwaitedCall(state))
          /\ UNCHANGED <<markdownContent, openaiApiKey, state, path, value,
                         response, totalCost, clock, startTime, validation,
                         result, thrown>>
     ELSE /\ thrown' = PipelineError(capError[rejectedBy])
          /\ state' = "Failed"
          /\ path' = Append(path, "Failed")
          /\ UNCHANGED <<markdownContent, openaiApiKey, status, value,
                         capError, response, invoked, calls, started,
                         rejectedBy, totalCost, clock, startTime, validation,
                         result>>

\* lines 214-220: an awaited promise rejected; the catch block rethrows
Catch ==
  /\ state \in Running
  /\ AnyRejected(Awaited(state))
  /\ thrown' = PipelineError(capError[rejectedBy])
  /\ state' = "Failed"
  /\ path' = Append(path, "Failed")
  /\ UNCHANGED <<markdownContent, openaiApiKey, status, value, capError,
                 response, invoked, calls, started, rejectedBy, totalCost, clock,
                 startTime, validation, result>>
  /\ UNCHANGED callerVars

Next ==
  \/ Begin
  \/ \E c \in Capabilities : \E resp \in Responses(c) : Respond(c, resp)
  \/ Phase1Resolved
  \/ Phase2Resolved
  \/ Phase3Resolved
  \/ Catch

Spec == Init /\ [][Next]_vars

(***************************************************************************)
(* Properties                                                              *)
(***************************************************************************)
Phase1Caps == {"summary", "seo", "category", "tags"}
Phase2Caps == {"schema", "imagePrompt", "embeddings"}
Phase3Caps == {"validator"}

\* position of the first call of a capability of caps in started (0: none)
FirstStart(caps) ==
  LET idx == {i \in 1..Len(started) : started[i] \in caps}
  IN IF idx = {} THEN 0 ELSE CHOOSE i \in idx : \A j \in idx : i <= j

\* position of the last call of a capability of caps in started (0: none)
LastStart(caps) ==
  LET idx == {i \in 1..Len(started) : started[i] \in caps}
  IN IF idx = {} THEN 0 ELSE CHOOSE i \in idx : \A j \in idx : i >= j

NothingReturned == DOMAIN result = {}
NothingThrown == ~thrown.isError

\* C1: no Phase 2 capability is started before all four Phase 1
\* capabilities have fulfilled, the validator is started only after all three
\* Phase 2 capabilities have fulfilled, and in the order of the starts every
\* Phase 1 start precedes every Phase 2 start, which precedes the Phase 3
\* start.
C1_PhaseOrdering ==
  /\ (\E c \in Phase2Caps : invoked[c] > 0)
       => \A d \in Phase1Caps : status[d] = "fulfilled"
  /\ invoked["validator"] > 0
       => \A d \in Phase1Caps \cup Phase2Caps : status[d] = "fulfilled"
  /\ FirstStart(Phase2Caps) > 0
       => /\ Phase1Caps \subseteq {started[i] : i \in 1..Len(started)}
          /\ LastStart(Phase1Caps) < FirstStart(Phase2Caps)
  /\ FirstStart(Phase3Caps) > 0
       => /\ Phase2Caps \subseteq {started[i] : i \in 1..Len(started)}
          /\ LastStart(Phase2Caps) < FirstStart(Phase3Caps)

\* a run in which all three phases were started
C1_Witness ==
  /\ state = "Phase3Running"
  /\ started = <<"summary", "seo", "category", "tags", "schema",
                 "imagePrompt", "embeddings", "validator">>

\* C2: once a Phase 1 capability has failed, the next step of the run is the
\* failure of the run; the run then carries the error of a failed Phase 1
\* capability (the only one, when one failed), no Phase 2 or Phase 3
\* capability is ever started and nothing is returned.
C2_Phase1Failure ==
  /\ []((\E c \in Phase1Caps : status[c] = "rejected")
          => /\ state \in {"Phase1Running", "Failed"}
             /\ \A d \in Phase2Caps \cup Phase3Caps :
                  invoked[d] = 0 /\ status[d] = "idle"
             /\ NothingReturned
             /\ state = "Failed"
                  => \E c \in Phase1Caps :
                       /\ status[c] = "rejected"
                       /\ thrown.isError
                       /\ thrown.message
                            = <<"AI Pipeline failed: ">> \o capError[c].message)
  /\ [][(state = "Phase1Running"
           /\ \E c \in Phase1Caps : status[c] = "rejected")
          => state' = "Failed"]_vars

\* a failed run in which one Phase 1 capability failed and another one
\* had already produced its result
C2_Witness ==
  /\ state = "Failed"
  /\ \E c \in Phase1Caps : status[c] = "rejected"
  /\ \E c \in Phase1Caps : status[c] = "fulfilled"

\* C3: the validator is called only when all seven Phase 1 and Phase 2
\* capabilities have fulfilled; once a Phase 2 capability has failed the
\* validator is never called, nothing is returned and the next step of the
\* run is its failure.
C3_ValidatorOnlyAfterSuccess ==
  /\ [](invoked["validator"] > 0
          => \A d \in Phase1Caps \cup Phase2Caps : status[d] = "fulfilled")
  /\ []((\E c \in Phase2Caps : status[c] = "rejected")
          => /\ invoked["validator"] = 0
             /\ calls["validator"] = 0
             /\ state \in {"Phase2Running", "Failed"}
             /\ NothingReturned)
  /\ [][(state = "Phase2Running"
           /\ \E c \in Phase2Caps : status[c] = "rejected")
          => state' = "Failed"]_vars

\* a run that failed in Phase 2 after the other two Phase 2 capabilities
\* had fulfilled
C3_Witness ==
  /\ state = "Failed"
  /\ \E c \in Phase2Caps :
       /\ status[c] = "rejected"
       /\ \A d \in Phase2Caps \ {c} : status[d] = "fulfilled"

ResultFields ==
  {"summary_short", "summary_medium", "summary_long", "meta_title",
   "meta_description", "seo_keywords", "category", "category_confidence",
   "tags", "schema_json", "image_prompt", "embedding", "quality_score",
   "validation_report", "processing_time_ms", "estimated_cost_usd"}

\* C4: a run ends in one of two ways: it returns a result with every field
\* group present and throws nothing, or it throws an error and returns
\* nothing; before the end nothing is returned or thrown.
C4_TwoOutcomes ==
  /\ state = "Completed"
       => /\ DOMAIN result = ResultFields
          /\ \A f \in {"summary_short", "summary_medium", "summary_long",
                       "meta_title", "meta_description", "seo_keywords",
                       "category", "image_prompt"} : result[f] # <<>>
          /\ Len(result.tags) > 0
          /\ result.embedding.present
          /\ DOMAIN result.schema_json # {}
          /\ DOMAIN result.validation_report # {}
          /\ NothingThrown
  /\ state = "Failed" => NothingReturned /\ thrown.isError
  /\ state \notin {"Completed", "Failed"} => NothingReturned /\ NothingThrown

\* a completed run
C4_Witness ==
  /\ state = "Completed"
  /\ DOMAIN result = ResultFields

\* the validator's promise fulfilled on a response that carried a numeric
\* score and a boolean flag
ValidatorAnswered ==
  /\ status["validator"] = "fulfilled"
  /\ response["validator"].kind = "json"

\* C5: whenever validateMetadata succeeds, the passed flag it returns
\* equals (returned quality_score >= 70), whatever flag the response proposed.
C5_PassedRecomputed ==
  ValidatorAnswered
    => value["validator"].passed = (value["validator"].quality_score >= 70)

\* the response proposed passed = true with a score below 70 and
\* validateMetadata returned passed = false
C5_Witness ==
  /\ ValidatorAnswered
  /\ response["validator"].obj.passed.bool
  /\ response["validator"].obj.quality_score.num = 69
  /\ ~value["validator"].passed

\* C6: the quality_score validateMetadata returns lies in [0,100]: a raw
\* score below 0 becomes 0, one above 100 becomes 100, one in range is
\* unchanged, and the pass decision is that of the clamped score.
C6_ScoreClamped ==
  ValidatorAnswered
    => LET raw == response["validator"].obj.quality_score.num
           score == value["validator"].quality_score
       IN /\ score \in 0..100
          /\ raw < 0 => score = 0
          /\ raw > 100 => score = 100
          /\ raw \in 0..100 => score = raw
          /\ value["validator"].passed
               = ((IF raw < 0 THEN 0 ELSE IF raw > 100 THEN 100 ELSE raw) >= 70)

\* the response carried a negative score and validateMetadata returned 0
C6_Witness ==
  /\ ValidatorAnswered
  /\ response["validator"].obj.quality_score.num < 0
  /\ value["validator"].quality_score = 0

C8_EmptyInputRejectedFirst ==
  markdownContent = <<>>
    => /\ \A c \in Capabilities : invoked[c] = 0 /\ calls[c] = 0
       /\ totalCost = 0
       /\ state \in {"Idle", "Failed"}

\* the capability an error message names: the text each agent puts in
\* front of the message of what it caught, or the fixed texts of
\* generateEmbeddings
NamedCapability(message) ==
  CASE message[1] = "Failed to generate summaries: " -> "summary"
    [] message[1] = "Failed to generate SEO metadata: " -> "seo"
    [] message[1] = "Failed to categorize content: " -> "category"
    [] message[1] = "Failed to generate tags: " -> "tags"
    [] message[1] = "Failed to generate Schema.org data: " -> "schema"
    [] message[1] = "Failed to generate image prompt: " -> "imagePrompt"
    [] message[1] = "Failed to generate embeddings: " -> "embeddings"
    [] message[1] = "OpenAI API key is invalid or missing. Please check your OPENAI_API_KEY environment variable." -> "embeddings"
    [] message[1] = "OpenAI API rate limit exceeded. Please try again later." -> "embeddings"
    [] message[1] = "OpenAI API quota exceeded. Please check your billing settings." -> "embeddings"
    [] message[1] = "Failed to validate metadata: " -> "validator"
    [] OTHER -> "none"

\* C9: a failure of a capability the run is waiting for is followed at once
\* by the failure of the run; the error of a failed run is the message of a
\* failed capability's error behind "AI Pipeline failed: ", and that message
\* names the capability; no result is returned once a capability has failed.
C9_FailureSurfaced ==
  /\ []((\E c \in Capabilities : status[c] = "rejected")
          => state # "Completed" /\ NothingReturned)
  /\ [](state = "Failed"
          => \E c \in Capabilities :
               /\ status[c] = "rejected"
               /\ capError[c].isError
               /\ NamedCapability(capError[c].message) = c
               /\ thrown.isError
               /\ thrown.message
                    = <<"AI Pipeline failed: ">> \o capError[c].message)
  /\ [][(state \in {"Phase1Running", "Phase2Running", "Phase3Running"}
           /\ \E c \in Capabilities : status[c] = "rejected")
          => state' = "Failed"]_vars

\* a run that failed on the provider's rate limit, which generateEmbeddings
\* reports with a fixed text
C9_Witness ==
  /\ state = "Failed"
  /\ status["embeddings"] = "rejected"
  /\ response["embeddings"].kind = "throw"
  /\ thrown.message
       = <<"AI Pipeline failed: ",
           "OpenAI API rate limit exceeded. Please try again later.">>

\* C10: each capability is invoked at most once in a run (its function is
\* called at most once and makes at most one remote call), and once a
\* capability has failed no capability is invoked any more.
C10_NoRetry ==
  /\ [](\A c \in Capabilities : invoked[c] <= 1 /\ calls[c] <= invoked[c])
  /\ [][(\E c \in Capabilities : status[c] = "rejected")
          => invoked' = invoked /\ calls' = calls]_vars

\* a run that failed on a response without JSON, every capability of the
\* phase having been called once
C10_Witness ==
  /\ state = "Failed"
  /\ \E c \in Capabilities :
       /\ status[c] = "rejected"
       /\ response[c].kind \in {"nojson", "badjson"}
       /\ invoked[c] = 1
       /\ calls[c] = 1

\* C11: when the run has failed, the capabilities of the failed phase that
\* are still pending stay pending (they are not cancelled) and settle later;
\* whatever they settle with, the run stays Failed with the error it failed
\* with and nothing is returned.
C11_SiblingsDiscarded ==
  /\ [][state = "Failed"
          => /\ state' = "Failed"
             /\ thrown' = thrown
             /\ DOMAIN result' = {}
             /\ totalCost' = totalCost]_vars
  /\ [][(state # "Failed" /\ state' = "Failed") => status' = status]_vars

\* the run failed on the summaries; afterwards the SEO call fulfilled and
\* the tags call failed, and the run still carries the summaries' error
C11_Witness ==
  /\ state = "Failed"
  /\ rejectedBy = "summary"
  /\ status["seo"] = "fulfilled"
  /\ status["tags"] = "rejected"
  /\ status["category"] = "pending"
  /\ thrown.message = <<"AI Pipeline failed: ">> \o capError["summary"].message

(***************************************************************************)
(* An agent function called on its own, as the agent tests call it         *)
(***************************************************************************)
\* the agent function of c has been called on the text markdown, with
\* OPENAI_API_KEY set or not, and its remote call is pending
AgentCalledOn(c, markdown, apiKey) ==
  /\ markdownContent = markdown
  /\ openaiApiKey = apiKey
  /\ state = "Idle"
  /\ path = <<"Idle">>
  /\ status = [d \in Capabilities |-> IF d = c THEN "pending" ELSE "idle"]
  /\ value = [d \in Capabilities |-> <<>>]
  /\ capError = [d \in Capabilities |-> NonError]
  /\ response = [d \in Capabilities |-> NoResponse]
  /\ invoked = [d \in Capabilities |-> IF d = c THEN 1 ELSE 0]
  /\ calls = [d \in Capabilities |-> IF d = c THEN 1 ELSE 0]
  /\ started = <<c>>
  /\ rejectedBy = "none"
  /\ totalCost = 0
  /\ clock = 0
  /\ startTime = 0
  /\ validation = <<>>
  /\ result = <<>>
  /\ thrown = NonError
  /\ CallerInit

AgentCalled(c) == AgentCalledOn(c, <<"a">>, TRUE)

(***************************************************************************)
(* generateTags on every list of up to MaxRawTags raw tags                 *)
(***************************************************************************)
MaxRawTags == 6

\* " Ai": equal to TagAI once lower-cased and trimmed
TagShout == <<" ", "A", "i">>

TagPool == {TagAI, TagShout, TagBad, TagWeb}

RawTagLists == UNION {[1..n -> TagPool] : n \in 0..MaxRawTags}

TagsResponses ==
  BadResponses
    \cup JsonResponses(
           {[tags |-> [isArray |-> TRUE, items |-> l]] : l \in RawTagLists}
             \cup {[tags |-> [isArray |-> FALSE, items |-> <<>>]]})

TagsInit == AgentCalled("tags")

TagsNext == \E resp \in TagsResponses : Respond("tags", resp)

SpecTags == TagsInit /\ [][TagsNext]_vars

\* generateTags returned a list for a response that carried an array
TagsReturned ==
  /\ status["tags"] = "fulfilled"
  /\ response["tags"].kind = "json"

TagChars ==
  {"a", "b", "c", "d", "e", "f", "g", "h", "i", "j", "k", "l", "m", "n",
   "o", "p", "q", "r", "s", "t", "u", "v", "w", "x", "y", "z", "0", "1",
   "2", "3", "4", "5", "6", "7", "8", "9", "-"}

\* C12: every list generateTags returns has between 3 and 5 entries, each
\* non-empty and made of the characters a-z, 0-9 and "-" only.
C12_TagsShape ==
  TagsReturned
    => /\ Len(value["tags"]) \in 3..5
       /\ \A i \in 1..Len(value["tags"]) :
            /\ Len(value["tags"][i]) > 0
            /\ \A k \in 1..Len(value["tags"][i]) :
                 value["tags"][i][k] \in TagChars

\* six raw tags, one of them in upper case with blanks around it, were cut
\* to five and returned
C12_Witness ==
  /\ TagsReturned
  /\ Len(response["tags"].obj.tags.items) = 6
  /\ \E i \in 1..5 : response["tags"].obj.tags.items[i] = TagShout
  /\ Len(value["tags"]) = 5

\* C13: no list generateTags returns contains the same entry twice.
C13_TagsUnique ==
  TagsReturned
    => \A i, j \in 1..Len(value["tags"]) :
         i # j => value["tags"][i] # value["tags"][j]

\* the raw tags that are valid once lower-cased and trimmed
ValidPositions(items) ==
  {i \in 1..Len(items) :
     /\ Len(Trim(ToLowerCase(items[i]))) > 0
     /\ \A k \in 1..Len(Trim(ToLowerCase(items[i]))) :
          Trim(ToLowerCase(items[i]))[k] \in TagChars}

\* C14: generateTags fails with an Error when the response carries no
\* array, fewer than 3 raw tags, or fewer than 3 tags that are valid after
\* normalization; it never returns fewer than 3 tags.
C14_TooFewTagsFail ==
  (status["tags"] # "pending" /\ response["tags"].kind = "json")
    => LET tags == response["tags"].obj.tags
       IN /\ (~tags.isArray
                \/ Len(tags.items) < 3
                \/ Cardinality(ValidPositions(tags.items)) < 3)
               => /\ status["tags"] = "rejected"
                  /\ capError["tags"].isError
                  /\ capError["tags"].message[1] = "Failed to generate tags: "
          /\ status["tags"] = "fulfilled" => Len(value["tags"]) >= 3

\* four raw tags of which only two are valid: generateTags failed
C14_Witness ==
  /\ status["tags"] = "rejected"
  /\ response["tags"].kind = "json"
  /\ Len(response["tags"].obj.tags.items) = 4
  /\ Cardinality(ValidPositions(response["tags"].obj.tags.items)) = 2
  /\ capError["tags"].message
       = <<"Failed to generate tags: ",
           "Not enough valid tags after normalization">>

(***************************************************************************)
(* generateSEOMetadata on titles and descriptions around their limits      *)
(***************************************************************************)
MaxOverLength == 3

\* a string of n characters "x" with a "y" at position m (none when m is 0)
Marked(n, m) == [i \in 1..n |-> IF i = m THEN "y" ELSE "x"]

\* strings of 0 and 1 characters and of limit - 1 .. limit + MaxOverLength
\* characters, marked at the start, at the limit or right after it
StringsAround(limit) ==
  {Marked(n, m) : n \in {0, 1} \cup ((limit - 1)..(limit + MaxOverLength)),
                  m \in {0, 1, limit, limit + 1}}

SEOFieldObjects ==
  {[meta_title |-> t, meta_description |-> d, seo_keywords |-> k] :
     t \in StringsAround(MetaTitleMax),
     d \in StringsAround(MetaDescriptionMax),
     k \in {<<>>, <<"k">>}}
    \cup {[meta_title |-> Marked(5, 0), meta_description |-> Marked(9, 0)],
          [meta_title |-> Marked(5, 0), seo_keywords |-> <<"k">>],
          [meta_description |-> Marked(9, 0), seo_keywords |-> <<"k">>]}

SEOResponses == BadResponses \cup JsonResponses(SEOFieldObjects)

SEOInit == AgentCalled("seo")

SEONext == \E resp \in SEOResponses : Respond("seo", resp)

SpecSEO == SEOInit /\ [][SEONext]_vars

\* generateSEOMetadata has settled for a response whose three fields are
\* present and non-empty
SEOFieldsGiven ==
  /\ status["seo"] # "pending"
  /\ response["seo"].kind = "json"
  /\ \A f \in {"meta_title", "meta_description", "seo_keywords"} :
       /\ f \in DOMAIN response["seo"].obj
       /\ Len(response["seo"].obj[f]) > 0

\* C15: for a response with non-empty meta_title, meta_description and
\* seo_keywords generateSEOMetadata succeeds; the title it returns is the
\* title of the response when that has at most 60 characters and its first
\* 60 characters otherwise, likewise the description with 160, and the
\* keywords are returned as they came.
C15_SEOTruncates ==
  SEOFieldsGiven
    => LET given == response["seo"].obj
           title == given.meta_title
           description == given.meta_description
       IN /\ status["seo"] = "fulfilled"
          /\ Len(value["seo"].meta_title) <= 60
          /\ Len(value["seo"].meta_description) <= 160
          /\ value["seo"].meta_title
               = IF Len(title) <= 60 THEN title ELSE SubSeq(title, 1, 60)
          /\ value["seo"].meta_description
               = IF Len(description) <= 160 THEN description
                 ELSE SubSeq(description, 1, 160)
          /\ value["seo"].seo_keywords = given.seo_keywords

\* a title of 63 characters marked right after the limit and a description
\* of 162 characters marked at the limit were cut to 60 and 160 characters
C15_Witness ==
  /\ SEOFieldsGiven
  /\ response["seo"].obj.meta_title = Marked(63, 61)
  /\ response["seo"].obj.meta_description = Marked(162, 160)
  /\ value["seo"].meta_title = Marked(60, 0)
  /\ value["seo"].meta_description = Marked(160, 160)

(***************************************************************************)
(* generateEmbeddings on vectors of every length around 3072 and every     *)
(* kind of component                                                       *)
(***************************************************************************)
VectorLengths ==
  {0, 1, 1536}
    \cup ((EmbeddingDimensions - 1)..(EmbeddingDimensions + MaxOverLength))

EmbeddingVectorResponses ==
  {[kind |-> "throw", thrown |-> e] : e \in ProviderFailures}
    \cup {[kind |-> "data", embedding |-> v] :
            v \in {NoEmbedding, NotAnArray}
                    \cup {VectorOf(n, k) : n \in VectorLengths,
                                          k \in ComponentKinds}}

EmbeddingsInit ==
  \E markdown \in Contents, apiKey \in BOOLEAN :
    AgentCalledOn("embeddings", markdown, apiKey)

EmbeddingsNext ==
  \E resp \in EmbeddingVectorResponses : Respond("embeddings", resp)

SpecEmbeddings == EmbeddingsInit /\ [][EmbeddingsNext]_vars

\* the provider was called and answered with data
ProviderAnswered ==
  /\ status["embeddings"] # "pending"
  /\ openaiApiKey
  /\ \E i \in 1..Len(markdownContent) : markdownContent[i] # " "
  /\ response["embeddings"].kind = "data"

\* C16: every vector generateEmbeddings returns has exactly 3072 components
\* that are all numbers other than NaN, and generateEmbeddings fails when the
\* provider's vector is missing, is not an array, has another length or has
\* a component that is NaN or not a number.
C16_VectorNumeric ==
  /\ status["embeddings"] = "fulfilled"
       => /\ value["embeddings"].length = 3072
          /\ value["embeddings"].components = "number"
  /\ ProviderAnswered
       => LET v == response["embeddings"].embedding
          IN (~v.present \/ ~v.isArray \/ v.length # 3072
                \/ v.components # "number")
               => status["embeddings"] = "rejected"

(***************************************************************************)
(* estimateProcessingCost                                                  *)
(***************************************************************************)
MaxCount == 20

\* Object.values(rec).reduce((sum, cost) => sum + cost, 0) over the keys S
RECURSIVE SumValues(_, _)
SumValues(rec, S) ==
  IF S = {} THEN 0
  ELSE LET k == CHOOSE x \in S : TRUE
       IN rec[k] + SumValues(rec, S \ {k})

\* a variant that counts at least one module
estimateProcessingCostAtLeastOne(n) ==
  LET perModuleCost == SumValues(COST_ESTIMATES, DOMAIN COST_ESTIMATES)
  IN [total |-> perModuleCost * Max(n, 1),
      perModule |-> perModuleCost,
      breakdown |-> COST_ESTIMATES]

estimateProcessingCost(n) ==
  LET perModuleCost == SumValues(COST_ESTIMATES, DOMAIN COST_ESTIMATES)
  IN [total |-> perModuleCost * n,
      perModule |-> perModuleCost,
      breakdown |-> COST_ESTIMATES]

\* a call estimateProcessingCost(n)
Estimate(n) ==
  /\ contentCount' = n
  /\ estimate' = estimateProcessingCost(n)
  /\ UNCHANGED <<markdownContent, openaiApiKey, state, path, status, value,
                 capError, response, invoked, calls, started, rejectedBy,
                 totalCost, clock, startTime, validation, result, thrown,
                 cmState, modules, module_embeddings, module_versions,
                 cmReturned, cmThrown>>
  /\ UNCHANGED serviceVars

CostNext == \E n \in 0..MaxCount : Estimate(n)

SpecCost == Init /\ [][CostNext]_vars

ResolvedCaps ==
  (IF "Phase2Running" \in Range(path) THEN Phase1Caps ELSE {})
    \cup (IF "Phase3Running" \in Range(path) THEN Phase2Caps ELSE {})
    \cup (IF "Completed" \in Range(path) THEN Phase3Caps ELSE {})

C19_LowScoreIsReturned ==
  /\ [][(/\ state = "Phase3Running"
         /\ \A c \in Capabilities : status[c] = "fulfilled"
         /\ value["validator"].quality_score < 70)
          => /\ state' = "Completed"
             /\ ~thrown'.isError
             /\ DOMAIN result' = ResultFields
             /\ result'.quality_score = value["validator"].quality_score
             /\ result'.validation_report
                  = value["validator"].validation_report]_vars
  /\ []((/\ state \in {"Completed", "Failed"}
         /\ \A c \in Capabilities : status[c] = "fulfilled")
          => state = "Completed")

\* a run was returned with a quality score of 69
C19_Witness ==
  /\ state = "Completed"
  /\ ~thrown.isError
  /\ result.quality_score = 69
  /\ result.validation_report = value["validator"].validation_report

(***************************************************************************)
(* The caller: createModule                                                *)
(***************************************************************************)
\* the input of createModule: a title, no owner
CreateModuleInput == [title |-> <<"A", " ", "b", "!">>]

AlphaNumeric == LowerCaseLetters \cup Digits

RECURSIVE DropNonAlphaNumeric(_)
DropNonAlphaNumeric(s) ==
  IF s # <<>> /\ Head(s) \notin AlphaNumeric
  THEN DropNonAlphaNumeric(Tail(s)) ELSE s

\* String.prototype.replace(/[^a-z0-9]+/g, "-")
RECURSIVE DashNonAlphaNumeric(_)
DashNonAlphaNumeric(s) ==
  IF s = <<>> THEN <<>>
  ELSE IF Head(s) \notin AlphaNumeric
  THEN <<"-">> \o DashNonAlphaNumeric(DropNonAlphaNumeric(Tail(s)))
  ELSE <<Head(s)>> \o DashNonAlphaNumeric(Tail(s))

RECURSIVE DropLeadingDashes(_)
DropLeadingDashes(s) ==
  IF s # <<>> /\ Head(s) = "-" THEN DropLeadingDashes(Tail(s)) ELSE s

RECURSIVE DropTrailingDashes(_)
DropTrailingDashes(s) ==
  IF s # <<>> /\ s[Len(s)] = "-"
  THEN DropTrailingDashes(SubSeq(s, 1, Len(s) - 1)) ELSE s

generateSlug(title) ==
  DropTrailingDashes(DropLeadingDashes(DashNonAlphaNumeric(ToLowerCase(title))))

\* String.prototype.split(",")
RECURSIVE SplitComma(_)
SplitComma(s) ==
  IF \A i \in 1..Len(s) : s[i] # "," THEN <<s>>
  ELSE LET i == CHOOSE j \in 1..Len(s) :
                  s[j] = "," /\ \A k \in 1..(j - 1) : s[k] # ","
       IN <<SubSeq(s, 1, i - 1)>> \o SplitComma(SubSeq(s, i + 1, Len(s)))

\* JSON.stringify
JSONStringify(v) == ToString(v)

\* a variant with a threshold of 50
BelowThresholdLenient(aiResult) == aiResult.quality_score < 50

\* aiResult.quality_score < 70
BelowThreshold(aiResult) == aiResult.quality_score < PassThreshold

QualityError(aiResult) ==
  Error(<<"Module quality score (", ToString(aiResult.quality_score),
          ") is below threshold (70). ", "Validation feedback: ",
          JSONStringify(aiResult.validation_report)>>)

\* lines 98-118: the row to insert
moduleData(input, aiResult) ==
  [title |-> input.title,
   slug |-> generateSlug(input.title),
   category |-> aiResult.category,
   tags |-> aiResult.tags,
   summary_short |-> aiResult.summary_short,
   summary_medium |-> aiResult.summary_medium,
   summary_long |-> aiResult.summary_long,
   meta_title |-> aiResult.meta_title,
   meta_description |-> aiResult.meta_description,
   seo_keywords |->
     [i \in 1..Len(SplitComma(aiResult.seo_keywords)) |->
        Trim(SplitComma(aiResult.seo_keywords)[i])],
   schema_json |-> aiResult.schema_json,
   image_prompt |-> aiResult.image_prompt,
   quality_score |-> aiResult.quality_score,
   validation_report |-> aiResult.validation_report,
   owner |-> IF Truthy(input, "owner") THEN input.owner
             ELSE <<"Keith Armstrong">>,
   latest_version |-> 1,
   status |-> "draft"]

\* the row as the database returns it: with the id it was given
StoredModule(data) ==
  [id |-> Cardinality(modules) + 1, data |-> data]

\* what an insert can answer with
InsertOutcomes == {"ok", "error"}

\* createModule has been called and awaits processMarkdownWithAI
CreateModuleInit ==
  /\ PipelineInit
  /\ cmState = "AwaitingPipeline"
  /\ modules = {}
  /\ module_embeddings = {}
  /\ module_versions = {}
  /\ cmReturned = <<>>
  /\ cmThrown = NonError
  /\ contentCount = 0
  /\ estimate = <<>>
  /\ ServiceInit

pipelineVars ==
  <<markdownContent, openaiApiKey, state, path, status, value, capError,
    response, invoked, calls, started, rejectedBy, totalCost, clock,
    startTime, validation, result, thrown>>

\* line 84: processMarkdownWithAI threw; createModule rejects with the same
PipelineThrew ==
  /\ cmState = "AwaitingPipeline"
  /\ state = "Failed"
  /\ cmState' = "Failed"
  /\ cmThrown' = thrown
  /\ UNCHANGED <<modules, module_embeddings, module_versions, cmReturned,
                 contentCount, estimate>>
  /\ UNCHANGED pipelineVars
  /\ UNCHANGED serviceVars

\* lines 84-124: processMarkdownWithAI returned; the threshold is checked
\* and the insert into modules is sent
PipelineReturned ==
  /\ cmState = "AwaitingPipeline"
  /\ state = "Completed"
  /\ IF BelowThreshold(result)
     THEN /\ cmState' = "Failed"
          /\ cmThrown' = QualityError(result)
     ELSE /\ cmState' = "InsertingModule"
          /\ cmThrown' = cmThrown
  /\ UNCHANGED <<modules, module_embeddings, module_versions, cmReturned,
                 contentCount, estimate>>
  /\ UNCHANGED pipelineVars
  /\ UNCHANGED serviceVars

\* lines 120-140: the insert into modules answers; on success the insert
\* into module_embeddings is sent
ModuleInserted(outcome) ==
  /\ cmState = "InsertingModule"
  /\ IF outcome = "ok"
     THEN /\ modules' = modules
                          \cup {StoredModule(moduleData(CreateModuleInput, result))}
          /\ cmReturned' = [module |-> StoredModule(moduleData(CreateModuleInput, result))]
          /\ cmState' = "InsertingEmbedding"
          /\ cmThrown' = cmThrown
     ELSE /\ modules' = modules
          /\ cmReturned' = cmReturned
          /\ cmState' = "Failed"
          /\ cmThrown' = Error(<<"Failed to create module: ", "insert failed">>)
  /\ UNCHANGED <<module_embeddings, module_versions, contentCount, estimate>>
  /\ UNCHANGED pipelineVars
  /\ UNCHANGED serviceVars

\* lines 133-157: the insert into module_embeddings answers; an error is
\* only logged; the insert into module_versions is sent
EmbeddingInserted(outcome) ==
  /\ cmState = "InsertingEmbedding"
  /\ module_embeddings'
       = IF outcome = "ok"
         THEN module_embeddings
                \cup {[module_id |-> cmReturned.module.id,
                       embedding |-> result.embedding]}
         ELSE module_embeddings
  /\ cmState' = "InsertingVersion"
  /\ UNCHANGED <<modules, module_versions, cmReturned, cmThrown,
                 contentCount, estimate>>
  /\ UNCHANGED pipelineVars
  /\ UNCHANGED serviceVars

\* lines 148-163: the insert into module_versions answers; an error is only
\* logged; createModule returns
VersionInserted(outcome) ==
  /\ cmState = "InsertingVersion"
  /\ module_versions'
       = IF outcome = "ok"
         THEN module_versions
                \cup {[module_id |-> cmReturned.module.id, version |-> 1,
                       changelog |-> "Initial version"]}
         ELSE module_versions
  /\ cmReturned' = [module |-> cmReturned.module, aiResult |-> result]
  /\ cmState' = "Returned"
  /\ UNCHANGED <<modules, module_embeddings, cmThrown, contentCount, estimate>>
  /\ UNCHANGED pipelineVars
  /\ UNCHANGED serviceVars

CreateModuleNext ==
  \/ Begin
  \/ \E c \in Capabilities : \E resp \in Responses(c) : Respond(c, resp)
  \/ Phase1Resolved
  \/ Phase2Resolved
  \/ Phase3Resolved
  \/ Catch
  \/ PipelineThrew
  \/ PipelineReturned
  \/ \E outcome \in InsertOutcomes : ModuleInserted(outcome)
  \/ \E outcome \in InsertOutcomes : EmbeddingInserted(outcome)
  \/ \E outcome \in InsertOutcomes : VersionInserted(outcome)

SpecCreateModule == CreateModuleInit /\ [][CreateModuleNext]_vars

\* processMarkdownWithAI threw, or returned a quality score below 70
PipelineFailedOrLow ==
  \/ state = "Failed"
  \/ state = "Completed" /\ result.quality_score < 70

\* C20: no step of processMarkdownWithAI changes a table, and a step that
\* changes one is taken after the pipeline returned a score of at least 70;
\* when the pipeline threw or returned a score below 70 the three tables
\* are empty, createModule does not return, and the step it takes is to
\* fail with an Error, whose message holds the validation report when the
\* score was low.
C20_PersistOnlyOnSuccess ==
  /\ [](PipelineFailedOrLow
          => /\ modules = {}
             /\ module_embeddings = {}
             /\ module_versions = {}
             /\ cmState \in {"AwaitingPipeline", "Failed"}
             /\ cmReturned = <<>>
             /\ cmState = "Failed"
                  => /\ cmThrown.isError
                     /\ state = "Completed"
                          => \E i \in 1..Len(cmThrown.message) :
                               cmThrown.message[i]
                                 = ToString(result.validation_report))
  /\ [][<<modules, module_embeddings, module_versions>>'
            # <<modules, module_embeddings, module_versions>>
          => /\ pipelineVars' = pipelineVars
             /\ state = "Completed"
             /\ result.quality_score >= 70]_vars
  /\ [][(PipelineFailedOrLow /\ cmState' # cmState)
          => /\ cmState' = "Failed"
             /\ cmThrown'.isError]_vars

\* the pipeline returned a score of 69 and createModule failed with the
\* threshold error, leaving the tables empty
C20_Witness ==
  /\ state = "Completed"
  /\ result.quality_score = 69
  /\ cmState = "Failed"
  /\ cmThrown.message[1] = "Module quality score ("
  /\ cmThrown.message[2] = "69"
  /\ modules = {}

\* the states a run can go to from each state
Successors(s) ==
  CASE s = "Idle" -> {"Phase1Running"}
    [] s = "Phase1Running" -> {"Phase2Running", "Failed"}
    [] s = "Phase2Running" -> {"Phase3Running", "Failed"}
    [] s = "Phase3Running" -> {"Completed", "Failed"}
    [] OTHER -> {}

\* C24: the state of a run only moves forward: Idle to Phase1Running, each
\* running phase to the next one or to Failed, Phase3Running to Completed;
\* no state is entered twice, Completed and Failed are left no more and no
\* capability is started once one of them is reached.
C24_ForwardOnly ==
  /\ [](\A i, j \in 1..Len(path) : i # j => path[i] # path[j])
  /\ [](path[Len(path)] = state)
  /\ [][state' # state => state' \in Successors(state)]_vars
  /\ [][(state = "Completed" \/ state = "Failed")
          => /\ state' = state
             /\ started' = started
             /\ invoked' = invoked
             /\ calls' = calls]_vars

\* a run that failed in Phase 2, after Phase 1, and in which a Phase 2
\* capability settled after the failure
C24_Witness ==
  /\ path = <<"Idle", "Phase1Running", "Phase2Running", "Failed">>
  /\ status["embeddings"] = "rejected"
  /\ status["schema"] = "fulfilled"
  /\ invoked["validator"] = 0

\* the capabilities of the phase a run is in
PhaseCaps(s) ==
  CASE s = "Phase1Running" -> Phase1Caps
    [] s = "Phase2Running" -> Phase2Caps
    [] s = "Phase3Running" -> Phase3Caps
    [] OTHER -> {}

\* C26: a run fails the moment the first capability of its phase has failed:
\* at that step exactly one capability of the phase has failed, whatever its
\* place in the list, its error is the one thrown and siblings may still be
\* pending; the failure is the next step after that first failure, and the
\* error thrown stays the same when further capabilities of the phase fail.
C26_FirstFailureInTime ==
  /\ [][(state # "Failed" /\ state' = "Failed")
          => \E c \in PhaseCaps(state) :
               /\ status[c] = "rejected"
               /\ \A d \in PhaseCaps(state) \ {c} : status[d] # "rejected"
               /\ thrown'.isError
               /\ thrown'.message
                    = <<"AI Pipeline failed: ">>
                        \o (IF capError[c].isError THEN capError[c].message
                            ELSE <<"Unknown error">>)]_vars
  /\ [][(\E c \in PhaseCaps(state) : status[c] = "rejected")
          => state' = "Failed"]_vars
  /\ [][state = "Failed" => thrown' = thrown]_vars

\* tags failed first and the run failed with its error; summary, the first
\* of the list, failed later with another error
C26_Witness ==
  /\ state = "Failed"
  /\ status["summary"] = "rejected"
  /\ status["tags"] = "rejected"
  /\ status["seo"] = "pending"
  /\ capError["summary"].message # capError["tags"].message
  /\ thrown.message = <<"AI Pipeline failed: ">> \o capError["tags"].message

\* the positions among the first five raw tags that hold a valid tag
ValidAmongFirstFive(items) == {i \in ValidPositions(items) : i <= 5}

\* C27: for a response with an array of at least 3 raw tags generateTags
\* looks at the first five raw tags only: it fails when fewer than three
\* of them are valid after lower-casing and trimming, whatever follows from
\* position six on, and otherwise returns exactly those that are valid,
\* lower-cased and trimmed, in their original order.
C27_CutBeforeNormalize ==
  (/\ status["tags"] # "pending"
   /\ response["tags"].kind = "json"
   /\ response["tags"].obj.tags.isArray
   /\ Len(response["tags"].obj.tags.items) >= 3)
    => LET items == response["tags"].obj.tags.items
           kept == ValidAmongFirstFive(items)
           Nth(k) == CHOOSE i \in kept :
                       Cardinality({j \in kept : j <= i}) = k
       IN IF Cardinality(kept) < 3
          THEN status["tags"] = "rejected"
          ELSE /\ status["tags"] = "fulfilled"
               /\ Len(value["tags"]) = Cardinality(kept)
               /\ \A k \in 1..Cardinality(kept) :
                    value["tags"][k] = Trim(ToLowerCase(items[Nth(k)]))

\* six raw tags of which the third, the fifth and the sixth are valid:
\* generateTags failed
C27_Witness ==
  /\ status["tags"] = "rejected"
  /\ response["tags"].kind = "json"
  /\ Len(response["tags"].obj.tags.items) = 6
  /\ ValidPositions(response["tags"].obj.tags.items) = {3, 5, 6}
  /\ capError["tags"].message[2] = "Not enough valid tags after normalization"

\* C28: once createModule has returned a module, module_embeddings holds
\* the embedding of the run for that module and module_versions holds its
\* version 1.
C28_ReturnedModuleIsIndexed ==
  cmState = "Returned"
    => /\ \E e \in module_embeddings :
            /\ e.module_id = cmReturned.module.id
            /\ e.embedding = result.embedding
       /\ \E v \in module_versions :
            /\ v.module_id = cmReturned.module.id
            /\ v.version = 1

(***************************************************************************)
(* categorizeContent on confidences from -0.02 to 1.00 + MaxOverLength     *)
(* hundredths and on percentages from 2 to 100 + MaxOverLength             *)
(***************************************************************************)
ConfidenceValues ==
  {n * (ConfidenceOne \div 100) : n \in (-2)..(100 + MaxOverLength)}
    \cup {n * ConfidenceOne : n \in 2..(100 + MaxOverLength)}

CategoryFieldObjects ==
  {[category |-> c, confidence |-> JSNumber(n), reasoning |-> r] :
     c \in {<<>>, <<"T">>}, n \in ConfidenceValues, r \in {<<>>, <<"r">>}}
    \cup {[category |-> <<"T">>, confidence |-> JSString],
          [category |-> <<"T">>, confidence |-> JSUndefined],
          [confidence |-> JSNumber(9500)]}

CategoryResponses == BadResponses \cup JsonResponses(CategoryFieldObjects)

CategoryInit == AgentCalled("category")

CategoryNext == \E resp \in CategoryResponses : Respond("category", resp)

SpecCategory == CategoryInit /\ [][CategoryNext]_vars

\* categorizeContent has settled for a response that holds a category and
\* a number as confidence
CategoryGiven ==
  /\ status["category"] # "pending"
  /\ response["category"].kind = "json"
  /\ "category" \in DOMAIN response["category"].obj
  /\ response["category"].obj.category # <<>>
  /\ response["category"].obj.confidence.type = "number"

\* C25: for a response with a category and a numeric confidence
\* categorizeContent succeeds with a confidence between 0 and 1 (10000): a
\* reported value between 0 and 1 is returned as it is, a negative one as
\* 0, and a value above 1 is divided by 100 and then cut to 1 at most.
C25_ConfidenceInUnitRange ==
  CategoryGiven
    => LET reported == response["category"].obj.confidence.num
       IN /\ status["category"] = "fulfilled"
          /\ value["category"].confidence >= 0
          /\ value["category"].confidence <= 10000
          /\ (reported >= 0 /\ reported <= 10000)
               => value["category"].confidence = reported
          /\ reported < 0 => value["category"].confidence = 0
          /\ (reported > 10000 /\ reported <= 1000000)
               => value["category"].confidence * 100 = reported
          /\ reported > 1000000 => value["category"].confidence = 10000

\* a confidence reported as 95 was returned as 0.95
C25_Witness ==
  /\ CategoryGiven
  /\ response["category"].obj.confidence.num = 950000
  /\ value["category"].confidence = 9500

(***************************************************************************)
(* cosineSimilarity on vectors of up to MaxDim components                  *)
(***************************************************************************)
MaxDim == 3

Components == {-1, 0, 1}

SmallVectors == UNION {[1..n -> Components] : n \in 0..MaxDim}

\* the value of an accumulator after the loop over i < n: the sum of
\* x[i] * y[i]
RECURSIVE SumProducts(_, _, _)
SumProducts(x, y, n) ==
  IF n = 0 THEN 0 ELSE SumProducts(x, y, n - 1) + x[n] * y[n]

\* the number dotProduct / (Math.sqrt(normA) * Math.sqrt(normB)), kept as
\* its three terms; it is NaN when a norm is 0
Quotient(dotProduct, normA, normB) ==
  [type |-> "number", dotProduct |-> dotProduct, normA |-> normA,
   normB |-> normB, isNaN |-> normA = 0 \/ normB = 0]

\* a variant that only refuses a first vector longer than the second
cosineSimilarityShorterFirst(a, b) ==
  IF Len(a) > Len(b)
  THEN Rejected(Error(<<"Embeddings must have the same dimensions">>))
  ELSE Fulfilled(Quotient(SumProducts(a, b, Len(a)),
                          SumProducts(a, a, Len(a)),
                          SumProducts(b, b, Len(a))))

cosineSimilarity(a, b) ==
  IF Len(a) # Len(b)
  THEN Rejected(Error(<<"Embeddings must have the same dimensions">>))
  ELSE Fulfilled(Quotient(SumProducts(a, b, Len(a)),
                          SumProducts(a, a, Len(a)),
                          SumProducts(b, b, Len(a))))

\* nothing of the pipeline or of createModule is running
PipelineIdle ==
  /\ PipelineInit
  /\ markdownContent = <<"a">>
  /\ openaiApiKey = TRUE
  /\ cmState = "none"
  /\ modules = {}
  /\ module_embeddings = {}
  /\ module_versions = {}
  /\ cmReturned = <<>>
  /\ cmThrown = NonError
  /\ contentCount = 0
  /\ estimate = <<>>

\* cosineSimilarity(a, b) is called
CosineInit ==
  /\ PipelineIdle
  /\ \E a \in SmallVectors, b \in SmallVectors :
       cosine = [state |-> "called", a |-> a, b |-> b]
  /\ search = [state |-> "none"]
  /\ versioning = [state |-> "none"]
  /\ webflow = [state |-> "none"]

\* the call returns or throws
CosineReturns ==
  /\ cosine.state = "called"
  /\ cosine' = [state |-> "done", a |-> cosine.a, b |-> cosine.b,
                outcome |-> cosineSimilarity(cosine.a, cosine.b)]
  /\ UNCHANGED pipelineVars
  /\ UNCHANGED <<cmState, modules, module_embeddings, module_versions,
                 cmReturned, cmThrown, contentCount, estimate, search,
                 versioning, webflow>>

CosineNext == CosineReturns

SpecCosine == CosineInit /\ [][CosineNext]_vars

\* C23: cosineSimilarity(a, b) throws an Error when a and b have different
\* lengths and returns a number, throwing nothing, when they have the same
\* length.
C23_LengthMismatchThrows ==
  cosine.state = "done"
    => /\ Len(cosine.a) # Len(cosine.b)
            => /\ ~cosine.outcome.ok
               /\ cosine.outcome.error.isError
       /\ Len(cosine.a) = Len(cosine.b)
            => /\ cosine.outcome.ok
               /\ cosine.outcome.value.type = "number"

\* cosineSimilarity of a vector of 2 and a vector of 3 components threw
C23_Witness ==
  /\ cosine.state = "done"
  /\ Len(cosine.a) = 2
  /\ Len(cosine.b) = 3
  /\ cosine.outcome.error.message
       = <<"Embeddings must have the same dimensions">>

(***************************************************************************)
(* semanticSearch and the function search_modules_by_embedding.  Vectors   *)
(* are unit vectors of a plane, given by their direction in degrees;       *)
(* distances, similarities and thresholds are counted in hundredths.       *)
(***************************************************************************)
MaxDocs == 3

DefaultLimit == 10
DefaultThreshold == 50

Directions == {0, 30, 60, 90, 180}

\* the angle between two directions, from 0 to 180 degrees
AngleBetween(a, b) ==
  LET d == IF a >= b THEN a - b ELSE b - a
  IN IF d > 180 THEN 360 - d ELSE d

\* the cosine of an angle that is a multiple of 30 degrees, in hundredths
CosineOf(angle) ==
  CASE angle = 0 -> 100
    [] angle = 30 -> 87
    [] angle = 60 -> 50
    [] angle = 90 -> 0
    [] angle = 120 -> -50
    [] angle = 150 -> -87
    [] angle = 180 -> -100

\* pgvector's a <=> b: the cosine distance
CosineDistance(a, b) == 100 - CosineOf(AngleBetween(a, b))

\* FROM modules m INNER JOIN module_embeddings e ON m.id = e.module_id,
\* with the columns of the SELECT list
Joined(query_embedding) ==
  {[id |-> m.id,
    distance |-> CosineDistance(e.embedding, query_embedding),
    similarity |-> 100 - CosineDistance(e.embedding, query_embedding)] :
     <<m, e>> \in {x \in modules \X module_embeddings :
                     x[1].id = x[2].module_id}}

\* a variant that also keeps the rows whose similarity equals the threshold
WhereAtLeast(rows, match_threshold) ==
  {r \in rows : r.similarity >= match_threshold}

\* WHERE 1 - (e.embedding <=> query_embedding) > match_threshold
Where(rows, match_threshold) == {r \in rows : r.similarity > match_threshold}

\* ORDER BY e.embedding <=> query_embedding: every order of the rows in
\* which the distance does not decrease
OrderBy(rows) ==
  {f \in [1..Cardinality(rows) -> rows] :
     /\ \A i, j \in 1..Cardinality(rows) : i # j => f[i] # f[j]
     /\ \A i, j \in 1..Cardinality(rows) :
          i < j => f[i].distance <= f[j].distance}

\* LIMIT match_count
Limit(rows, match_count) == SubSeq(rows, 1, Min(Len(rows), match_count))

\* RETURNS TABLE: the columns of the rows returned
Returned(rows) ==
  [i \in 1..Len(rows) |->
     [id |-> rows[i].id, similarity |-> rows[i].similarity]]

\* the tables the function can answer with
search_modules_by_embedding(query_embedding, match_threshold, match_count) ==
  {Returned(Limit(o, match_count)) :
     o \in OrderBy(Where(Joined(query_embedding), match_threshold))}

\* what the endpoint lets through: a limit from 1 to 100 and a threshold
\* from 0 to 1, each of which can be left out
SearchInputs ==
  {[query |-> <<"q">>]}
    \cup {[query |-> <<"q">>, limit |-> l] : l \in {1, 2}}
    \cup {[query |-> <<"q">>, threshold |-> t] : t \in {0, 50, 80}}
    \cup {[query |-> <<"q">>, limit |-> l, threshold |-> t] :
            l \in {1, 2}, t \in {0, 50, 80}}

\* the tables: modules 1..n, each with at most one embedding
Indexes ==
  UNION {[1..n -> Directions \cup {-1}] : n \in 0..MaxDocs}

\* semanticSearch(input) is called; it awaits generateEmbeddings
SearchInit ==
  /\ PipelineInit
  /\ markdownContent = <<"a">>
  /\ openaiApiKey = TRUE
  /\ cmState = "none"
  /\ \E index \in Indexes :
       /\ modules = {[id |-> i] : i \in DOMAIN index}
       /\ module_embeddings
            = {[module_id |-> i, embedding |-> index[i]] :
                 i \in {j \in DOMAIN index : index[j] # -1}}
  /\ module_versions = {}
  /\ cmReturned = <<>>
  /\ cmThrown = NonError
  /\ contentCount = 0
  /\ estimate = <<>>
  /\ \E input \in SearchInputs : search = [state |-> "embedding", input |-> input]
  /\ cosine = [state |-> "none"]
  /\ versioning = [state |-> "none"]
  /\ webflow = [state |-> "none"]

searchFrame ==
  <<cmState, modules, module_embeddings, module_versions, cmReturned,
    cmThrown, contentCount, estimate, cosine, versioning, webflow>>

\* x || d on an optional number
OrDefault(input, f, d) ==
  IF f \in DOMAIN input /\ input[f] # 0 THEN input[f] ELSE d

\* line 290: generateEmbeddings rejected; semanticSearch rejects with it
QueryEmbeddingFailed ==
  /\ search.state = "embedding"
  /\ search' = [state |-> "threw", input |-> search.input,
                thrown |-> generateEmbeddings(
                             <<"q">>, TRUE,
                             [kind |-> "throw",
                              thrown |-> Error(<<"fetch failed">>)]).error]
  /\ UNCHANGED pipelineVars
  /\ UNCHANGED searchFrame

\* lines 290-301: generateEmbeddings fulfilled; the rpc is sent
QueryEmbedded(queryEmbedding) ==
  /\ search.state = "embedding"
  /\ search' = [state |-> "rpc", input |-> search.input,
                params |->
                  [query_embedding |-> queryEmbedding,
                   match_threshold |->
                     OrDefault(search.input, "threshold", DefaultThreshold),
                   match_count |->
                     OrDefault(search.input, "limit", DefaultLimit)]]
  /\ UNCHANGED pipelineVars
  /\ UNCHANGED searchFrame

\* what the rpc in flight can answer with
SearchAnswers ==
  IF search.state = "rpc"
  THEN search_modules_by_embedding(search.params.query_embedding,
                                   search.params.match_threshold,
                                   search.params.match_count)
  ELSE {}

\* lines 297-307: the rpc answers with the rows of the function
SearchAnswered(data) ==
  /\ search.state = "rpc"
  /\ search' = [state |-> "returned", input |-> search.input,
                params |-> search.params, result |-> data]
  /\ UNCHANGED pipelineVars
  /\ UNCHANGED searchFrame

\* lines 303-305: the rpc answers with an error
SearchFailed ==
  /\ search.state = "rpc"
  /\ search' = [state |-> "threw", input |-> search.input,
                params |-> search.params,
                thrown |-> Error(<<"Semantic search failed: ", "fetch failed">>)]
  /\ UNCHANGED pipelineVars
  /\ UNCHANGED searchFrame

SearchNext ==
  \/ QueryEmbeddingFailed
  \/ \E queryEmbedding \in {0, 60} : QueryEmbedded(queryEmbedding)
  \/ \E data \in SearchAnswers : SearchAnswered(data)
  \/ SearchFailed

SpecSearch == SearchInit /\ [][SearchNext]_vars

\* the similarity of the embedding of an indexed module to the query
SimilarityOf(e) ==
  CosineOf(AngleBetween(e.embedding, search.params.query_embedding))

C22_SuppliedParametersUsed ==
  search.state \in {"rpc", "returned"}
    => /\ search.params.match_threshold
            = IF "threshold" \in DOMAIN search.input
              THEN search.input.threshold ELSE 50
       /\ search.params.match_count
            = IF "limit" \in DOMAIN search.input
              THEN search.input.limit ELSE 10

(***************************************************************************)
(* createModuleVersion: MaxCallers calls on one module, in any             *)
(* interleaving of their requests                                          *)
(***************************************************************************)
MaxCallers == 3

Callers == 1..MaxCallers

\* what a request to the database can answer with
RequestOutcomes == {"ok", "error"}

\* UNIQUE(module_id, version) of table module_versions
UniqueViolation(rows, version) ==
  \E i \in 1..Len(rows) : rows[i].version = version

\* the module exists with latest_version 1; its version 1 was recorded by
\* createModule, or was not when that insert failed
VersioningInit ==
  /\ PipelineIdle
  /\ \E rows \in {<<>>, <<[version |-> 1, by |-> 0]>>} :
       versioning = [state |-> "running",
                     latest_version |-> 1,
                     rows |-> rows,
                     pc |-> [p \in Callers |-> "idle"],
                     newVersion |-> [p \in Callers |-> 0]]
  /\ search = [state |-> "none"]
  /\ cosine = [state |-> "none"]
  /\ webflow = [state |-> "none"]

versioningFrame ==
  <<cmState, modules, module_embeddings, module_versions, cmReturned,
    cmThrown, contentCount, estimate, search, cosine, webflow>>

\* line 338: createModuleVersion is called and asks for the module
VersionCalled(p) ==
  /\ versioning.state = "running"
  /\ versioning.pc[p] = "idle"
  /\ versioning' = [versioning EXCEPT !.pc[p] = "reading"]
  /\ UNCHANGED pipelineVars
  /\ UNCHANGED versioningFrame

\* lines 338-356: getModuleById answers; without a module the call throws,
\* otherwise the insert of version latest_version + 1 is sent
ModuleRead(p, outcome) ==
  /\ versioning.state = "running"
  /\ versioning.pc[p] = "reading"
  /\ versioning'
       = IF outcome = "ok"
         THEN [versioning EXCEPT
                 !.pc[p] = "inserting",
                 !.newVersion[p] =
                   (IF versioning.latest_version = 0 THEN 1
                    ELSE versioning.latest_version) + 1]
         ELSE [versioning EXCEPT !.pc[p] = "threw"]
  /\ UNCHANGED pipelineVars
  /\ UNCHANGED versioningFrame

\* lines 345-363: the insert answers: an error (the request failed, or the
\* version exists already) makes the call throw; otherwise the row is in
\* the table and the update of latest_version is sent
VersionRowInserted(p, outcome) ==
  /\ versioning.state = "running"
  /\ versioning.pc[p] = "inserting"
  /\ versioning'
       = IF outcome = "ok"
            /\ ~UniqueViolation(versioning.rows, versioning.newVersion[p])
         THEN [versioning EXCEPT
                 !.pc[p] = "updating",
                 !.rows = Append(versioning.rows,
                                 [version |-> versioning.newVersion[p],
                                  by |-> p])]
         ELSE [versioning EXCEPT !.pc[p] = "threw"]
  /\ UNCHANGED pipelineVars
  /\ UNCHANGED versioningFrame

\* lines 363-366: the update answers: updateModule throws on an error,
\* otherwise latest_version is newVersion and the call returns
LatestVersionUpdated(p, outcome) ==
  /\ versioning.state = "running"
  /\ versioning.pc[p] = "updating"
  /\ versioning'
       = IF outcome = "ok"
         THEN [versioning EXCEPT
                 !.pc[p] = "returned",
                 !.latest_version = versioning.newVersion[p]]
         ELSE [versioning EXCEPT !.pc[p] = "threw"]
  /\ UNCHANGED pipelineVars
  /\ UNCHANGED versioningFrame

VersioningNext ==
  \/ \E p \in Callers : VersionCalled(p)
  \/ \E p \in Callers, outcome \in RequestOutcomes : ModuleRead(p, outcome)
  \/ \E p \in Callers, outcome \in RequestOutcomes :
       VersionRowInserted(p, outcome)
  \/ \E p \in Callers, outcome \in RequestOutcomes :
       LatestVersionUpdated(p, outcome)

SpecVersioning == VersioningInit /\ [][VersioningNext]_vars

\* the versions in the rows of module_versions
VersionsInserted ==
  {versioning.rows[i].version : i \in 1..Len(versioning.rows)}

\* C29: no two rows of module_versions hold the same version, and when no
\* call of createModuleVersion is in progress the module's latest_version
\* is the highest version in module_versions.
C29_VersionsDistinctLatestHighest ==
  /\ \A i, j \in 1..Len(versioning.rows) :
       i # j => versioning.rows[i].version # versioning.rows[j].version
  /\ (/\ \A p \in Callers : versioning.pc[p] \in {"idle", "returned", "threw"}
      /\ VersionsInserted # {})
       => \A v \in VersionsInserted : v <= versioning.latest_version

(***************************************************************************)
(* POST /api/webflow/sync/:id and syncModuleToWebflow: up to MaxSyncs      *)
(* syncs of one module, one after the other                                *)
(***************************************************************************)
MaxSyncs == 3

\* the bodies the route accepts: both options can be left out
SyncOptions ==
  {<<>>}
    \cup {[autoPublish |-> a] : a \in BOOLEAN}
    \cup {[forceCreate |-> f] : f \in BOOLEAN}
    \cup {[autoPublish |-> a, forceCreate |-> f] : a \in BOOLEAN, f \in BOOLEAN}

\* options.forceCreate, undefined being falsy
ForceCreate(options) ==
  "forceCreate" \in DOMAIN options /\ options.forceCreate

\* (options.autoPublish ?? true) && module.status === "published"
ShouldPublish(options, module) ==
  /\ IF "autoPublish" \in DOMAIN options THEN options.autoPublish ELSE TRUE
  /\ module.status = "published"

\* no sync has returned yet.  In the records below a webflow_id of 0 is
\* null, and the items of the collection are numbered from 1.
NoWebflowResult == [success |-> FALSE, action |-> "none"]

\* the module exists and was never synced
WebflowInit ==
  /\ PipelineIdle
  /\ \E configured \in BOOLEAN, moduleStatus \in {"draft", "published"} :
       webflow = [state |-> "running",
                  configured |-> configured,
                  module |-> [webflow_id |-> 0, status |-> moduleStatus],
                  items |-> {},
                  pc |-> "idle",
                  options |-> <<>>,
                  read |-> [webflow_id |-> 0, status |-> moduleStatus],
                  itemId |-> 0,
                  created |-> 0,
                  action |-> "none",
                  result |-> NoWebflowResult,
                  syncs |-> 0,
                  forced |-> FALSE]
  /\ search = [state |-> "none"]
  /\ cosine = [state |-> "none"]
  /\ versioning = [state |-> "none"]

webflowFrame ==
  <<cmState, modules, module_embeddings, module_versions, cmReturned,
    cmThrown, contentCount, estimate, search, cosine, versioning>>

\* the result of the catch block of syncModuleToWebflow
SyncError(message) ==
  [success |-> FALSE, action |-> "error",
   message |-> "Failed to sync module to Webflow", error |-> message]

\* the result of a sync that went through
SyncSuccess(action, itemId) ==
  [success |-> TRUE, webflowId |-> itemId, action |-> action]

\* route lines 314-329, syncModuleToWebflow up to its first request: the
\* module is read; Webflow not being configured ends the sync; otherwise
\* the item is updated when the module has a webflow_id and forceCreate is
\* not set, and created otherwise
SyncRequested(options) ==
  /\ webflow.state = "running"
  /\ webflow.pc = "idle"
  /\ webflow.syncs < MaxSyncs
  /\ webflow'
       = [webflow EXCEPT
            !.syncs = webflow.syncs + 1,
            !.options = options,
            !.read = webflow.module,
            !.itemId = 0,
            !.created = 0,
            !.forced = webflow.forced \/ ForceCreate(options),
            !.action = IF ~webflow.configured THEN "skipped"
                       ELSE IF webflow.module.webflow_id # 0
                               /\ ~ForceCreate(options)
                       THEN "updated" ELSE "created",
            !.result = IF ~webflow.configured
                       THEN [success |-> FALSE, action |-> "skipped"]
                       ELSE NoWebflowResult,
            !.pc = IF ~webflow.configured THEN "idle"
                   ELSE IF webflow.module.webflow_id # 0
                           /\ ~ForceCreate(options)
                   THEN "updating" ELSE "creating"]
  /\ UNCHANGED pipelineVars
  /\ UNCHANGED webflowFrame

\* what follows the answer of the create or update request: the publish
\* request, or the successful return and the route's update of webflow_id
AfterItem(w) ==
  IF ShouldPublish(w.options, w.read)
  THEN [w EXCEPT !.pc = "publishing"]
  ELSE [w EXCEPT !.pc = "saving",
                 !.result = SyncSuccess(w.action, w.itemId)]

\* createWebflowItem answers: Webflow has made the item, or refused
ItemCreated(outcome) ==
  /\ webflow.state = "running"
  /\ webflow.pc = "creating"
  /\ webflow'
       = IF outcome = "ok"
         THEN AfterItem([webflow EXCEPT
                           !.items = webflow.items
                                       \cup {Cardinality(webflow.items) + 1},
                           !.itemId = Cardinality(webflow.items) + 1,
                           !.created = Cardinality(webflow.items) + 1])
         ELSE [webflow EXCEPT
                 !.pc = "idle",
                 !.result = SyncError("Failed to create Webflow item")]
  /\ UNCHANGED pipelineVars
  /\ UNCHANGED webflowFrame

\* updateWebflowItem answers
ItemUpdated(outcome) ==
  /\ webflow.state = "running"
  /\ webflow.pc = "updating"
  /\ webflow'
       = IF outcome = "ok"
         THEN AfterItem([webflow EXCEPT !.itemId = webflow.read.webflow_id])
         ELSE [webflow EXCEPT
                 !.pc = "idle",
                 !.result = SyncError("Failed to update Webflow item")]
  /\ UNCHANGED pipelineVars
  /\ UNCHANGED webflowFrame

\* publishWebflowItem answers: a failure is caught and the sync returns an
\* error result
ItemPublished(outcome) ==
  /\ webflow.state = "running"
  /\ webflow.pc = "publishing"
  /\ webflow'
       = IF outcome = "ok"
         THEN [webflow EXCEPT
                 !.pc = "saving",
                 !.result = SyncSuccess(webflow.action, webflow.itemId)]
         ELSE [webflow EXCEPT
                 !.pc = "idle",
                 !.result = SyncError("Failed to publish Webflow item")]
  /\ UNCHANGED pipelineVars
  /\ UNCHANGED webflowFrame

\* route lines 331-337: the update of webflow_id answers; its error is
\* not looked at
WebflowIdSaved(outcome) ==
  /\ webflow.state = "running"
  /\ webflow.pc = "saving"
  /\ webflow'
       = [webflow EXCEPT
            !.pc = "idle",
            !.module.webflow_id =
              IF outcome = "ok" THEN webflow.result.webflowId
              ELSE webflow.module.webflow_id]
  /\ UNCHANGED pipelineVars
  /\ UNCHANGED webflowFrame

WebflowNext ==
  \/ \E options \in SyncOptions : SyncRequested(options)
  \/ \E outcome \in RequestOutcomes : ItemCreated(outcome)
  \/ \E outcome \in RequestOutcomes : ItemUpdated(outcome)
  \/ \E outcome \in RequestOutcomes : ItemPublished(outcome)
  \/ \E outcome \in RequestOutcomes : WebflowIdSaved(outcome)

SpecWebflow == WebflowInit /\ [][WebflowNext]_vars

\* C30: a sync that has created an item in Webflow ends with a successful
\* result that carries the id of that item and with that id recorded as the
\* module's webflow_id; and as long as no sync was asked to forceCreate the
\* collection holds at most one item of the module.
C30_CreatedItemIsRecorded ==
  /\ (webflow.pc = "idle" /\ webflow.created # 0)
       => /\ webflow.result.success
          /\ webflow.result.webflowId = webflow.created
          /\ webflow.module.webflow_id = webflow.created
  /\ ~webflow.forced => Cardinality(webflow.items) <= 1

====
